---- MODULE Spec2Model ----
(***************************************************************************)
(* l402-kit: fetchWithL402 and its challenge parser (src/src/index.ts).    *)
(*                                                                         *)
(* Strings that flow through the parser are sequences of one-character     *)
(* strings, so that the regular expressions of the source can be followed  *)
(* character by character.  `Undefined' stands for JavaScript's undefined  *)
(* and `Null' for null; neither is a sequence of one-character strings.    *)
(***************************************************************************)
EXTENDS Integers, Sequences, FiniteSets, TLC

Undefined == <<"undefined">>
Null == <<"null">>

(***************************************************************************)
(* Character classes and the string primitives of the runtime.             *)
(***************************************************************************)
LowerLetters == <<"a","b","c","d","e","f","g","h","i","j","k","l","m",
                  "n","o","p","q","r","s","t","u","v","w","x","y","z">>
UpperLetters == <<"A","B","C","D","E","F","G","H","I","J","K","L","M",
                  "N","O","P","Q","R","S","T","U","V","W","X","Y","Z">>
DigitChars == {"0","1","2","3","4","5","6","7","8","9"}
LetterChars == {LowerLetters[i] : i \in 1..26} \cup {UpperLetters[i] : i \in 1..26}

\* \s of the regular expressions and the characters String.prototype.trim removes
IsWs(c) == c \in {" ", "\t", "\n", "\r"}

\* [a-zA-Z0-9_-]
IsKeyChar(c) == c \in LetterChars \cup DigitChars \cup {"_", "-"}

\* [a-z0-9] under the i flag
IsAlnum(c) == c \in LetterChars \cup DigitChars

ToLowerChar(c) ==
  IF \E i \in 1..26 : UpperLetters[i] = c
  THEN LowerLetters[CHOOSE i \in 1..26 : UpperLetters[i] = c]
  ELSE c

\* String.prototype.toLowerCase
ToLowerCase(s) == [i \in 1..Len(s) |-> ToLowerChar(s[i])]

\* s.slice(from - 1) in the 1-based indexing of sequences
SliceFrom(s, from) == SubSeq(s, from, Len(s))

RECURSIVE TrimStart(_)
TrimStart(s) ==
  IF s /= <<>> /\ IsWs(s[1]) THEN TrimStart(Tail(s)) ELSE s

RECURSIVE TrimEnd(_)
TrimEnd(s) ==
  IF s /= <<>> /\ IsWs(s[Len(s)]) THEN TrimEnd(SubSeq(s, 1, Len(s) - 1)) ELSE s

\* String.prototype.trim
Trim(s) == TrimEnd(TrimStart(s))

\* s.indexOf(c), 1-based; 0 when c does not occur (-1 in the source)
IndexOf(s, c) ==
  IF \E i \in 1..Len(s) : s[i] = c
  THEN CHOOSE i \in 1..Len(s) : s[i] = c /\ \A j \in 1..(i - 1) : s[j] /= c
  ELSE 0

\* first position >= i that does not hold whitespace: where a greedy \s* ends
RECURSIVE SkipWs(_, _)
SkipWs(s, i) ==
  IF i <= Len(s) /\ IsWs(s[i]) THEN SkipWs(s, i + 1) ELSE i

\* (?:L402|LSAT) under the i flag, matched at position i
SchemeAt(s, i) ==
  /\ i + 3 <= Len(s)
  /\ ToLowerCase(SubSeq(s, i, i + 3)) \in {<<"l","4","0","2">>, <<"l","s","a","t">>}

(***************************************************************************)
(* parseAuthParams                                                         *)
(***************************************************************************)
\* end of the maximal run of [a-zA-Z0-9_-] starting at i (i - 1 when empty)
RECURSIVE KeyEnd(_, _)
KeyEnd(s, i) ==
  IF i <= Len(s) /\ IsKeyChar(s[i]) THEN KeyEnd(s, i + 1) ELSE i - 1

\* "(?:[^"\\]|\\.)*" with the opening quote already consumed: the position
\* of the closing quote, 0 when the quoted alternative does not match
RECURSIVE QuotedEnd(_, _)
QuotedEnd(s, i) ==
  IF i > Len(s) THEN 0
  ELSE IF s[i] = "\"" THEN i
  ELSE IF s[i] = "\\"
       THEN IF i + 1 <= Len(s) /\ s[i + 1] \notin {"\n", "\r"}
            THEN QuotedEnd(s, i + 2) ELSE 0
  ELSE QuotedEnd(s, i + 1)

\* TokenEnd for [^,;=\s]+ : a token that also ends at an equals sign
RECURSIVE TokenEnd_stopsAtEquals(_, _)
TokenEnd_stopsAtEquals(s, i) ==
  IF i <= Len(s) /\ ~IsWs(s[i]) /\ s[i] \notin {",", ";", "="}
  THEN TokenEnd_stopsAtEquals(s, i + 1) ELSE i - 1

\* TokenEnd for [^,\s]+ : a token that runs over a semicolon
RECURSIVE TokenEnd_overSemicolon(_, _)
TokenEnd_overSemicolon(s, i) ==
  IF i <= Len(s) /\ ~IsWs(s[i]) /\ s[i] /= ","
  THEN TokenEnd_overSemicolon(s, i + 1) ELSE i - 1

\* [^,;\s]+ : end of the maximal run starting at i (i - 1 when empty)
RECURSIVE TokenEnd(_, _)
TokenEnd(s, i) ==
  IF i <= Len(s) /\ ~IsWs(s[i]) /\ s[i] \notin {",", ";"}
  THEN TokenEnd(s, i + 1) ELSE i - 1

\* end of the value alternative ("..."|[^,;\s]+) at position i, 0 when neither matches
ValueEnd(s, i) ==
  IF i <= Len(s) /\ s[i] = "\"" /\ QuotedEnd(s, i + 1) /= 0
  THEN QuotedEnd(s, i + 1)
  ELSE IF TokenEnd(s, i) >= i THEN TokenEnd(s, i) ELSE 0

\* one attempt of the regular expression of parseAuthParams at position i:
\* <<keyFrom, keyTo, valFrom, valTo>> or <<>> when there is no match at i
ParamMatchAt(s, i) ==
  LET ke == KeyEnd(s, i)
      eq == SkipWs(s, ke + 1)
      vs == SkipWs(s, eq + 1)
  IN IF ke >= i /\ eq <= Len(s) /\ s[eq] = "=" /\ ValueEnd(s, vs) /= 0
     THEN <<i, ke, vs, ValueEnd(s, vs)>>
     ELSE <<>>

\* StripQuotes that leaves the quotes in place
StripQuotes_kept(v) == v

\* v.startsWith('"') && v.endsWith('"') && v.length >= 2 ? v.slice(1, -1) : v
StripQuotes(v) ==
  IF Len(v) >= 2 /\ v[1] = "\"" /\ v[Len(v)] = "\""
  THEN SubSeq(v, 2, Len(v) - 1) ELSE v

\* out[k] = v
SetKey(out, k, v) == [x \in DOMAIN out \cup {k} |-> IF x = k THEN v ELSE out[x]]

\* s.matchAll(re) from position i on, folded into the object `out'
RECURSIVE ParamsFrom(_, _, _)
ParamsFrom(s, i, out) ==
  IF i > Len(s) THEN out
  ELSE LET m == ParamMatchAt(s, i)
       IN IF m = <<>> THEN ParamsFrom(s, i + 1, out)
          ELSE LET k == ToLowerCase(Trim(SubSeq(s, m[1], m[2])))
                   v == StripQuotes(Trim(SubSeq(s, m[3], m[4])))
               IN ParamsFrom(s, m[4] + 1, IF k = <<>> THEN out ELSE SetKey(out, k, v))

EmptyObject == [x \in {} |-> <<>>]

parseAuthParams(s) == ParamsFrom(s, 1, EmptyObject)

\* property read obj[k] of a plain object: undefined when the key is absent
Prop(obj, k) == IF k \in DOMAIN obj THEN obj[k] ELSE Undefined

\* truthiness of a value that is a string or undefined
Truthy(v) == v /= Undefined /\ v /= Null /\ v /= <<>>

\* a || b || ... over a list of values: the first truthy one, else the last
RECURSIVE FirstTruthy(_)
FirstTruthy(vals) ==
  IF Len(vals) = 1 \/ Truthy(vals[1]) THEN vals[1] ELSE FirstTruthy(Tail(vals))

(***************************************************************************)
(* Names the source spells as string literals or property names.           *)
(***************************************************************************)
S_invoice == <<"i","n","v","o","i","c","e">>
S_payreq == <<"p","a","y","r","e","q">>
S_payment_request == <<"p","a","y","m","e","n","t","_","r","e","q","u","e","s","t">>
S_paymentrequest == <<"p","a","y","m","e","n","t","r","e","q","u","e","s","t">>
S_paymentRequest == <<"p","a","y","m","e","n","t","R","e","q","u","e","s","t">>
S_pr == <<"p","r">>
S_bolt11 == <<"b","o","l","t","1","1">>
S_bolt_11 == <<"b","o","l","t","_","1","1">>
S_boltDash11 == <<"b","o","l","t","-","1","1">>
S_macaroon == <<"m","a","c","a","r","o","o","n">>
S_proof_header == <<"p","r","o","o","f","_","h","e","a","d","e","r">>
S_proofheader == <<"p","r","o","o","f","h","e","a","d","e","r">>
S_proofHeader == <<"p","r","o","o","f","H","e","a","d","e","r">>
S_proofDashHeader == <<"p","r","o","o","f","-","h","e","a","d","e","r">>
S_header == <<"h","e","a","d","e","r">>
S_authorization == <<"a","u","t","h","o","r","i","z","a","t","i","o","n">>
S_xL402Proof == <<"x","-","l","4","0","2","-","p","r","o","o","f">>
S_l402 == <<"l","4","0","2">>
S_lsat == <<"l","s","a","t">>

(***************************************************************************)
(* parseWwwAuthenticateL402                                                *)
(***************************************************************************)
\* SplitPoints of a split at every comma
SplitPoints_everyComma(h) == {i \in 1..Len(h) : h[i] = ","}

\* the commas matched by /,(?=\s*(?:L402|LSAT)\s)/i
SplitPoints(h) ==
  {i \in 1..Len(h) :
     /\ h[i] = ","
     /\ LET j == SkipWs(h, i + 1)
        IN SchemeAt(h, j) /\ j + 4 <= Len(h) /\ IsWs(h[j + 4])}

\* h.split(re): the pieces between the matched commas, from position `start' on
RECURSIVE SplitFrom(_, _, _)
SplitFrom(h, start, i) ==
  IF i > Len(h) THEN <<SubSeq(h, start, Len(h))>>
  ELSE IF i \in SplitPoints(h)
       THEN <<SubSeq(h, start, i - 1)>> \o SplitFrom(h, i + 1, i + 1)
       ELSE SplitFrom(h, start, i + 1)

\* .map((s) => s.trim()).filter(Boolean)
RECURSIVE TrimAndFilter(_)
TrimAndFilter(segs) ==
  IF segs = <<>> THEN <<>>
  ELSE LET t == Trim(segs[1])
       IN (IF t = <<>> THEN <<>> ELSE <<t>>) \o TrimAndFilter(Tail(segs))

Segments(h) == TrimAndFilter(SplitFrom(h, 1, 1))

\* seg.match(/^(L402|LSAT)\s*,\s*(.*)$/i): position of the comma, 0 when no match
CommaSchemeAt(seg) ==
  IF SchemeAt(seg, 1)
  THEN LET j == SkipWs(seg, 5)
       IN IF /\ j <= Len(seg)
             /\ seg[j] = ","
             /\ \A x \in SkipWs(seg, j + 1)..Len(seg) : seg[x] \notin {"\n", "\r"}
          THEN j ELSE 0
  ELSE 0

\* scheme.replace(/[^a-z0-9]+$/gi, '')
RECURSIVE StripTrailingPunct(_)
StripTrailingPunct(s) ==
  IF s /= <<>> /\ ~IsAlnum(s[Len(s)])
  THEN StripTrailingPunct(SubSeq(s, 1, Len(s) - 1)) ELSE s

\* rest.replace(/^,\s*/, '')
StripLeadingComma(s) ==
  IF s /= <<>> /\ s[1] = "," THEN SliceFrom(s, SkipWs(s, 2)) ELSE s

\* the scheme token of one segment, lower-cased
SegScheme(seg) ==
  IF CommaSchemeAt(seg) /= 0
  THEN ToLowerCase(Trim(SubSeq(seg, 1, 4)))
  ELSE LET space == IndexOf(seg, " ")
       IN StripTrailingPunct(
            ToLowerCase(Trim(IF space = 0 THEN seg ELSE SubSeq(seg, 1, space - 1))))

\* the parameter text of one segment
SegRest(seg) ==
  IF CommaSchemeAt(seg) /= 0
  THEN Trim(SliceFrom(seg, SkipWs(seg, CommaSchemeAt(seg) + 1)))
  ELSE LET space == IndexOf(seg, " ")
       IN StripLeadingComma(IF space = 0 THEN <<>> ELSE Trim(SliceFrom(seg, space + 1)))

\* the aliases with payreq looked up before invoice
InvoiceParamAliases_payreqFirst ==
  <<S_payreq, S_invoice, S_payment_request, S_paymentrequest, S_pr, S_bolt11, S_boltDash11>>

InvoiceParamAliases ==
  <<S_invoice, S_payreq, S_payment_request, S_paymentrequest, S_pr, S_bolt11, S_boltDash11>>

ProofHeaderParamAliases ==
  <<S_proof_header, S_proofheader, S_proofDashHeader, S_header>>

\* params.a || params.b || ... along a list of aliases
ParamAmong(params, aliases) ==
  FirstTruthy([i \in 1..Len(aliases) |-> Prop(params, aliases[i])])

(***************************************************************************)
(* Values other than plain strings (the result of JSON.parse, the meta of  *)
(* a challenge) carry their JavaScript type as a tag.                      *)
(***************************************************************************)
JStr(s) == [t |-> "string", s |-> s]
JObj(o) == [t |-> "object", o |-> o]
JArr == [t |-> "array"]
JNum(n) == [t |-> "number", n |-> n]
JBool(b) == [t |-> "boolean", b |-> b]
JNull == [t |-> "null"]
JUndefined == [t |-> "undefined"]

\* the null of `L402Challenge | null'
NoChallenge == [null |-> TRUE]

\* SegmentChallenge without the test of the scheme
SegmentChallenge_anyScheme(seg) ==
  LET params == parseAuthParams(SegRest(seg))
      invoice == ParamAmong(params, InvoiceParamAliases)
      hint == FirstTruthy(<<ParamAmong(params, ProofHeaderParamAliases), Undefined>>)
  IN IF ~Truthy(invoice) \/ Trim(invoice) = <<>> THEN NoChallenge
     ELSE [invoice |-> invoice,
           proofHeader |-> IF Truthy(hint) THEN hint ELSE S_authorization,
           meta |-> IF Truthy(Prop(params, S_macaroon))
                    THEN JObj(SetKey(EmptyObject, S_macaroon,
                                     JStr(Prop(params, S_macaroon))))
                    ELSE JObj(EmptyObject)]

\* the body of the loop over the segments: the challenge of one segment,
\* NoChallenge when the loop continues with the next segment
SegmentChallenge(seg) ==
  IF SegScheme(seg) \notin {S_l402, S_lsat} THEN NoChallenge
  ELSE LET params == parseAuthParams(SegRest(seg))
           invoice == ParamAmong(params, InvoiceParamAliases)
           hint == FirstTruthy(<<ParamAmong(params, ProofHeaderParamAliases), Undefined>>)
       IN IF ~Truthy(invoice) \/ Trim(invoice) = <<>> THEN NoChallenge
          ELSE [invoice |-> invoice,
                proofHeader |-> IF Truthy(hint) THEN hint ELSE S_authorization,
                meta |-> IF Truthy(Prop(params, S_macaroon))
                         THEN JObj(SetKey(EmptyObject, S_macaroon,
                                          JStr(Prop(params, S_macaroon))))
                         ELSE JObj(EmptyObject)]

RECURSIVE FirstSegmentChallenge(_)
FirstSegmentChallenge(segs) ==
  IF segs = <<>> THEN NoChallenge
  ELSE LET c == SegmentChallenge(segs[1])
       IN IF c /= NoChallenge THEN c ELSE FirstSegmentChallenge(Tail(segs))

\* h is the value of res.headers.get('www-authenticate'): Null when absent
parseWwwAuthenticateL402(h) ==
  IF h = Null \/ h = <<>> THEN NoChallenge ELSE FirstSegmentChallenge(Segments(h))

(***************************************************************************)
(* parseJsonChallenge                                                      *)
(***************************************************************************)
\* !v
JFalsy(v) ==
  \/ v.t \in {"null", "undefined"}
  \/ v.t = "string" /\ v.s = <<>>
  \/ v.t = "number" /\ v.n = 0
  \/ v.t = "boolean" /\ ~v.b

\* typeof v === 'object'
JTypeofObject(v) == v.t \in {"object", "array", "null"}

\* v.k and v?.k: undefined on null and undefined, on a value without
\* that property, and on an array or primitive (none has a property of
\* the names the source reads)
JProp(v, k) ==
  IF v.t = "object" /\ k \in DOMAIN v.o THEN v.o[k] ELSE JUndefined

\* a ?? b ?? ... over a list of values: the first that is neither null nor
\* undefined, else the last
RECURSIVE FirstNonNullish(_)
FirstNonNullish(vals) ==
  IF Len(vals) = 1 \/ vals[1].t \notin {"null", "undefined"}
  THEN vals[1] ELSE FirstNonNullish(Tail(vals))

InvoiceKeyAliases ==
  <<S_invoice, S_payreq, S_payment_request, S_paymentRequest, S_paymentrequest,
    S_pr, S_bolt11, S_bolt_11, S_boltDash11>>

ProofHeaderKeyAliases ==
  <<S_proofHeader, S_proof_header, S_proofheader, S_proofDashHeader, S_header>>

\* typeof v === 'string' && v.trim() ? v : (null | undefined), as a string or Undefined
NonBlankStringOf(v) ==
  IF v.t = "string" /\ Trim(v.s) /= <<>> THEN v.s ELSE Undefined

\* returns the invoice string, or Undefined for the source's null
extractInvoiceCandidate(obj) ==
  IF JFalsy(obj) \/ ~JTypeofObject(obj) THEN Undefined
  ELSE NonBlankStringOf(
         FirstNonNullish([i \in 1..Len(InvoiceKeyAliases) |-> JProp(obj, InvoiceKeyAliases[i])]))

extractProofHeaderHint(obj) ==
  IF JFalsy(obj) \/ ~JTypeofObject(obj) THEN Undefined
  ELSE NonBlankStringOf(
         FirstNonNullish([i \in 1..Len(ProofHeaderKeyAliases) |-> JProp(obj, ProofHeaderKeyAliases[i])]))

S_challenge == <<"c","h","a","l","l","e","n","g","e">>
S_data == <<"d","a","t","a">>
S_details == <<"d","e","t","a","i","l","s">>
S_result == <<"r","e","s","u","l","t">>
S_payment == <<"p","a","y","m","e","n","t">>
S_error == <<"e","r","r","o","r">>
S_meta == <<"m","e","t","a">>

\* the array `candidates' of parseJsonChallenge
InvoiceCandidates(j) ==
  <<j,
    JProp(j, S_l402),
    JProp(j, S_challenge),
    JProp(j, S_data),
    JProp(j, S_details),
    JProp(j, S_result),
    JProp(j, S_payment),
    JProp(j, S_error),
    JProp(JProp(j, S_error), S_l402),
    JProp(JProp(j, S_error), S_data),
    JProp(JProp(j, S_data), S_l402),
    JProp(JProp(j, S_data), S_challenge)>>

\* the array `proofHintCandidates' of parseJsonChallenge
ProofHintCandidates(j) ==
  <<j,
    JProp(j, S_l402),
    JProp(j, S_challenge),
    JProp(j, S_data),
    JProp(j, S_details),
    JProp(j, S_result),
    JProp(j, S_error),
    JProp(JProp(j, S_error), S_l402),
    JProp(JProp(j, S_data), S_l402),
    JProp(JProp(j, S_data), S_challenge)>>

\* for (const c of candidates) { invoice = extractInvoiceCandidate(c); if (invoice) break; }
RECURSIVE FirstInvoice(_)
FirstInvoice(cands) ==
  IF cands = <<>> THEN Undefined
  ELSE IF Truthy(extractInvoiceCandidate(cands[1])) THEN extractInvoiceCandidate(cands[1])
  ELSE FirstInvoice(Tail(cands))

RECURSIVE FirstProofHint(_)
FirstProofHint(cands) ==
  IF cands = <<>> THEN Undefined
  ELSE IF Truthy(extractProofHeaderHint(cands[1])) THEN extractProofHeaderHint(cands[1])
  ELSE FirstProofHint(Tail(cands))

\* typeof m === 'object' && m ? m : undefined
ObjectOrUndefined(m) == IF JTypeofObject(m) /\ ~JFalsy(m) THEN m ELSE JUndefined

\* parseJsonChallenge that defaults a missing hint the way the header parser does
parseJsonChallenge_defaulted(bodyText) ==
  IF bodyText.kind /= "json" THEN NoChallenge
  ELSE LET j == bodyText.value
           invoice == FirstInvoice(InvoiceCandidates(j))
           hint == FirstProofHint(ProofHintCandidates(j))
       IN IF JFalsy(j) \/ ~JTypeofObject(j) THEN NoChallenge
          ELSE IF ~Truthy(invoice) \/ Trim(invoice) = <<>> THEN NoChallenge
          ELSE [invoice |-> invoice,
                proofHeader |-> IF Truthy(hint) THEN hint ELSE S_authorization,
                meta |-> FirstNonNullish(<<ObjectOrUndefined(JProp(j, S_meta)),
                                           ObjectOrUndefined(JProp(JProp(j, S_l402), S_meta))>>)]

\* JSON.parse(bodyText) is the runtime's: a body text is either not JSON
\* (JSON.parse throws) or denotes the value bodyText.value
parseJsonChallenge(bodyText) ==
  IF bodyText.kind /= "json" THEN NoChallenge
  ELSE LET j == bodyText.value
           invoice == FirstInvoice(InvoiceCandidates(j))
       IN IF JFalsy(j) \/ ~JTypeofObject(j) THEN NoChallenge
          ELSE IF ~Truthy(invoice) \/ Trim(invoice) = <<>> THEN NoChallenge
          ELSE [invoice |-> invoice,
                proofHeader |-> FirstProofHint(ProofHintCandidates(j)),
                meta |-> FirstNonNullish(<<ObjectOrUndefined(JProp(j, S_meta)),
                                           ObjectOrUndefined(JProp(JProp(j, S_l402), S_meta))>>)]

(***************************************************************************)
(* parseChallenge                                                          *)
(***************************************************************************)
\* parseChallenge with the body tried before the header
parseChallenge_bodyFirst(wwwAuthenticate, bodyText) ==
  IF parseJsonChallenge(bodyText) /= NoChallenge
  THEN parseJsonChallenge(bodyText)
  ELSE parseWwwAuthenticateL402(wwwAuthenticate)

\* parseChallenge that gives up when the header is there but yields nothing
parseChallenge_noFallThrough(wwwAuthenticate, bodyText) ==
  IF wwwAuthenticate /= Null /\ wwwAuthenticate /= <<>>
  THEN parseWwwAuthenticateL402(wwwAuthenticate)
  ELSE parseJsonChallenge(bodyText)

\* wwwAuthenticate is res.headers.get('www-authenticate') (Null when the
\* response has no such header)
parseChallenge(wwwAuthenticate, bodyText) ==
  LET fromHeader == parseWwwAuthenticateL402(wwwAuthenticate)
  IN IF fromHeader /= NoChallenge THEN fromHeader ELSE parseJsonChallenge(bodyText)

(***************************************************************************)
(* The Headers class of the runtime, as far as fetchWithL402 uses it: a    *)
(* map from lower-cased names to values.                                   *)
(***************************************************************************)
\* the characters of an HTTP token (the backquote, also a token character,
\* is left out: it cannot be written in a string here)
IsTokenChar(c) ==
  c \in LetterChars \cup DigitChars \cup
        {"!", "#", "$", "%", "&", "'", "*", "+", "-", ".", "^", "_", "|", "~"}

IsHeaderName(name) == name /= <<>> /\ \A i \in 1..Len(name) : IsTokenChar(name[i])

\* Headers.prototype.set strips leading and trailing HTTP whitespace of the value
NormalizeHeaderValue(value) == Trim(value)

IsHeaderValue(value) == \A i \in 1..Len(value) : value[i] \notin {"\n", "\r"}

\* headers.set(name, value): throws a TypeError on an invalid name or value
HeadersSetThrows(name, value) ==
  ~IsHeaderName(name) \/ ~IsHeaderValue(NormalizeHeaderValue(value))

\* headers.append(name, value) in place of set: a value already there is kept
HeadersSet_append(headers, name, value) ==
  SetKey(headers, ToLowerCase(name),
         IF ToLowerCase(name) \in DOMAIN headers
         THEN headers[ToLowerCase(name)] \o <<",", " ">> \o NormalizeHeaderValue(value)
         ELSE NormalizeHeaderValue(value))

HeadersSet(headers, name, value) ==
  SetKey(headers, ToLowerCase(name), NormalizeHeaderValue(value))

(***************************************************************************)
(* Number(opts.max402Retries ?? 1), Math.max and >= on numbers and NaN.    *)
(***************************************************************************)
NaN == [t |-> "NaN"]

\* v ?? d
NullishOr(v, d) == IF v.t \in {"null", "undefined"} THEN d ELSE v

\* the value of a string of decimal digits
RECURSIVE DigitsValue(_)
DigitsValue(s) ==
  IF s = <<>> THEN 0
  ELSE 10 * DigitsValue(SubSeq(s, 1, Len(s) - 1))
       + (CHOOSE d \in 0..9 : <<"0","1","2","3","4","5","6","7","8","9">>[d + 1] = s[Len(s)])

\* Number(v) for a number (itself, NaN included) and for a string: the
\* trimmed string read as a decimal numeral, 0 when empty, NaN when it is
\* none (signs, fractions, exponents and other radixes are not passed)
Number(v) ==
  IF v.t /= "string" THEN v
  ELSE IF \A i \in 1..Len(Trim(v.s)) : Trim(v.s)[i] \in DigitChars
       THEN JNum(DigitsValue(Trim(v.s)))
       ELSE NaN

\* Math.max(0, v)
MathMax0(v) == IF v.t = "NaN" THEN NaN ELSE JNum(IF v.n > 0 THEN v.n ELSE 0)

\* GreaterEq with the comparison off by one: attempt > maxRetries
GreaterEq_strict(a, v) == v.t /= "NaN" /\ a > v.n

\* a >= v for an integer a
GreaterEq(a, v) == v.t /= "NaN" /\ a >= v.n

(***************************************************************************)
(* Inputs: what the caller passes and what the transport and the pay       *)
(* callback answer.                                                        *)
(***************************************************************************)
\* largest max402Retries the caller passes
MaxRetriesOpt == 2

\* transport calls after which a call whose retry bound never applies is cut off
MaxSends == MaxRetriesOpt + 1

S_lnbc1 == <<"l","n","b","c","1">>
S_lnbc2 == <<"l","n","b","c","2">>
S_m1 == <<"m","1">>
S_xPaid == <<"x","-","p","a","i","d">>
S_xCustom == <<"x","-","c","u","s","t","o","m">>
S_accept == <<"a","c","c","e","p","t">>
S_json == <<"j","s","o","n">>
S_caller == <<"c","a","l","l","e","r">>
S_paid == <<"p","a","i","d">>
S_p2 == <<"p","2">>
\* "x y": not an HTTP token
S_badName == <<"x"," ","y">>

\* L402 macaroon="m1", invoice="lnbc1"
H_L402 == <<"L","4","0","2"," ","m","a","c","a","r","o","o","n","=","\"","m","1","\"",","," ","i","n","v","o","i","c","e","=","\"","l","n","b","c","1","\"">>
\* LSAT macaroon="m1", payreq="lnbc1"
H_LSAT == <<"L","S","A","T"," ","m","a","c","a","r","o","o","n","=","\"","m","1","\"",","," ","p","a","y","r","e","q","=","\"","l","n","b","c","1","\"">>
\* Bearer realm="x", invoice="lnbc1"
H_Bearer == <<"B","e","a","r","e","r"," ","r","e","a","l","m","=","\"","x","\"",","," ","i","n","v","o","i","c","e","=","\"","l","n","b","c","1","\"">>
\* L402 invoice=lnbc1 header="x y"
H_BadHint == <<"L","4","0","2"," ","i","n","v","o","i","c","e","=","l","n","b","c","1"," ","h","e","a","d","e","r","=","\"","x"," ","y","\"">>

\* a response body that is not JSON, such as the text: pay me
TextBody == [kind |-> "text"]
JsonBody(v) == [kind |-> "json", value |-> v]

Obj1(k, v) == JObj(SetKey(EmptyObject, k, v))
Obj2(k1, v1, k2, v2) == JObj(SetKey(SetKey(EmptyObject, k1, v1), k2, v2))

Response(status, www, body) ==
  [status |-> status, wwwAuthenticate |-> www, body |-> body, bodyUsed |-> FALSE]

\* 200 {"ok":true}
R_200 == Response(200, Null, JsonBody(Obj1(<<"o","k">>, JBool(TRUE))))
\* 500, plain text
R_500 == Response(500, Null, TextBody)
\* 402 {"invoice":"lnbc1"}
R_402Json == Response(402, Null, JsonBody(Obj1(S_invoice, JStr(S_lnbc1))))
\* 402 {"l402":{"payreq":"lnbc2","proof_header":"x-paid"}}
R_402JsonHint ==
  Response(402, Null,
           JsonBody(Obj1(S_l402, Obj2(S_payreq, JStr(S_lnbc2), S_proof_header, JStr(S_xPaid)))))
\* 402 {"invoice":"lnbc1","header":"x y"}
R_402JsonBadHint ==
  Response(402, Null, JsonBody(Obj2(S_invoice, JStr(S_lnbc1), S_header, JStr(S_badName))))
\* 402 with WWW-Authenticate: L402 ..., plain text body
R_402L402 == Response(402, H_L402, TextBody)
\* 402 with WWW-Authenticate: LSAT ..., and a JSON body that is a challenge too
R_402LSAT == Response(402, H_LSAT, JsonBody(Obj1(S_invoice, JStr(S_lnbc2))))
\* 402 with a header challenge whose proof-header hint is not a header name
R_402HeaderBadHint == Response(402, H_BadHint, TextBody)
\* 402, plain text, no challenge header
R_402Text == Response(402, Null, TextBody)
\* 402 with WWW-Authenticate: Bearer ..., body []
R_402Bearer == Response(402, H_Bearer, JsonBody(JArr))
\* 402 {"error":"paid"}
R_402NoInvoice == Response(402, Null, JsonBody(Obj1(S_error, JStr(S_paid))))

\* the responses the transport may answer with
Responses ==
  <<R_200, R_500, R_402Json, R_402JsonHint, R_402JsonBadHint, R_402L402, R_402LSAT,
    R_402HeaderBadHint, R_402Text, R_402Bearer, R_402NoInvoice>>

\* the proofs a successful pay returns
Proofs == {S_paid, S_p2}

\* what a failing pay rejects with, and what a failing transport call rejects with
PayErrors == {"payment declined"}
TransportErrors == {"network error"}

Options(pay, proofHeader, max402Retries) ==
  [given |-> TRUE, pay |-> pay, proofHeader |-> proofHeader, max402Retries |-> max402Retries]

\* the `opts' argument: absent, without pay, or with pay and the two optional fields
OptsChoices ==
  {[given |-> FALSE, pay |-> FALSE, proofHeader |-> Undefined, max402Retries |-> JUndefined],
   Options(FALSE, Undefined, JUndefined)}
  \cup {Options(TRUE, ph, JUndefined) : ph \in {Undefined, S_xCustom}}
  \cup {Options(TRUE, Undefined, NaN), Options(TRUE, S_xCustom, JStr(<<"a","b","c">>))}
  \cup {Options(TRUE, ph, JNum(n)) : ph \in {Undefined, S_xCustom}, n \in (-1)..MaxRetriesOpt}
  \cup {Options(TRUE, Undefined, JStr(<<"0">>))}

\* the `init' argument: undefined, or a request with headers of its own
InitChoices ==
  {[method |-> "GET", body |-> "", headers |-> EmptyObject],
   [method |-> "POST", body |-> "payload",
    headers |-> SetKey(SetKey(EmptyObject, S_accept, S_json), S_authorization, S_caller)]}

\* the error fetchWithL402 throws without opts.pay
ConfigError == "fetchWithL402: opts.pay is required"

(***************************************************************************)
(* fetchWithL402                                                           *)
(***************************************************************************)
VARIABLES
  opts,               \* argument
  input,              \* argument
  init,               \* argument
  pc,                 \* where the call is: "idle", "fetch", "text", "pay", "done"
  maxRetries,         \* local
  defaultProofHeader, \* local
  baseInit,           \* local
  attempt,            \* local
  res,                \* local: index in `responses' of the response at hand
  challenge,          \* local
  responses,          \* the Response objects the transport has produced
  requests,           \* the transport calls made, in order
  payCalls,           \* the challenges pay was invoked with, in order
  payResults,         \* what each settled pay invocation produced
  textCalls,          \* number of res.text() calls
  bodyTexts,          \* the bodyText each settled res.text() call led to
  outcome             \* how the call ended

\* the parsers taken by themselves: a 402 response handed to parseChallenge
\* and to its two parts
VARIABLES
  sent,               \* what the server put in the response: challenges and body
  received,           \* the Response the parsers are given
  stage,              \* "idle", "received", "parsed"
  headerChallenge,    \* result of parseWwwAuthenticateL402(received)
  bodyChallenge,      \* result of parseJsonChallenge(bodyText)
  parsed              \* result of parseChallenge(received, bodyText)

parserVars == <<sent, received, stage, headerChallenge, bodyChallenge, parsed>>

\* two calls of fetchWithL402 under way at once, and the objects they work on
VARIABLES
  initObjects,        \* the init objects: the caller's, then each call's baseInit
  headersObjects,     \* the headers objects: the caller's, then those the calls build
  original,           \* the caller's objects as they were handed over
  call                \* per call: its arguments, its locals and what it has sent

pairVars == <<initObjects, headersObjects, original, call>>

\* the call talking to the mock server
VARIABLES
  server              \* the mock server, as startMockL402Server set it up

harnessVars == <<parserVars, pairVars, server>>

vars == <<opts, input, init, pc, maxRetries, defaultProofHeader, baseInit, attempt,
          res, challenge, responses, requests, payCalls, payResults, textCalls, bodyTexts,
          outcome, parserVars, pairVars, server>>

\* no response at hand
Nothing == [nothing |-> TRUE]

\* the parsers are not called by themselves
ParserIdle ==
  /\ sent = Nothing
  /\ received = Nothing
  /\ stage = "idle"
  /\ headerChallenge = NoChallenge
  /\ bodyChallenge = NoChallenge
  /\ parsed = NoChallenge

\* no pair of calls is under way
PairIdle ==
  /\ initObjects = <<>>
  /\ headersObjects = <<>>
  /\ original = Nothing
  /\ call = Nothing
  /\ server = Nothing

Pending == [kind |-> "pending"]
Returned(r) == [kind |-> "returned", res |-> r]
Threw(e) == [kind |-> "threw", error |-> e]

Init ==
  /\ opts \in OptsChoices
  /\ input = "https://example.test/paid"
  /\ init \in InitChoices
  /\ pc = "idle"
  /\ maxRetries = JUndefined
  /\ defaultProofHeader = Undefined
  /\ baseInit = init
  /\ attempt = 0
  /\ res = 0
  /\ challenge = NoChallenge
  /\ responses = <<>>
  /\ requests = <<>>
  /\ payCalls = <<>>
  /\ payResults = <<>>
  /\ textCalls = 0
  /\ bodyTexts = <<>>
  /\ outcome = Pending
  /\ ParserIdle
  /\ PairIdle

\* Request built from the headers of the caller's init instead of baseInit's
Request_initHeaders(in, bi) ==
  [input |-> in, method |-> bi.method, body |-> bi.body, headers |-> init.headers]

\* Request that sends every retry as a GET without a body
Request_retryWithoutBody(in, bi) ==
  IF bi.headers = init.headers
  THEN [input |-> in, method |-> bi.method, body |-> bi.body, headers |-> bi.headers]
  ELSE [input |-> in, method |-> "GET", body |-> "", headers |-> bi.headers]

\* fetch(input, { ...baseInit, headers: new Headers(baseInit.headers || undefined) })
Request(in, bi) ==
  [input |-> in, method |-> bi.method, body |-> bi.body, headers |-> bi.headers]

\* Call with opts.pay checked only after the first request has been sent
Call_checksPayLate ==
  /\ pc = "idle"
  /\ requests' = Append(requests, Request(input, init))
  /\ IF ~opts.given \/ ~opts.pay
     THEN /\ outcome' = Threw(ConfigError)
          /\ pc' = "done"
          /\ UNCHANGED <<maxRetries, defaultProofHeader, baseInit, attempt>>
     ELSE /\ maxRetries' = MathMax0(Number(NullishOr(opts.max402Retries, JNum(1))))
          /\ defaultProofHeader' = FirstTruthy(<<opts.proofHeader, S_xL402Proof>>)
          /\ baseInit' = init
          /\ attempt' = 0
          /\ pc' = "fetch"
          /\ UNCHANGED outcome
  /\ UNCHANGED <<harnessVars, opts, input, init, res, challenge, responses, payCalls, payResults,
                 textCalls, bodyTexts>>

\* the call, up to its first await
Call ==
  /\ pc = "idle"
  /\ IF ~opts.given \/ ~opts.pay
     THEN /\ outcome' = Threw(ConfigError)
          /\ pc' = "done"
          /\ UNCHANGED <<maxRetries, defaultProofHeader, baseInit, attempt, requests>>
     ELSE /\ maxRetries' = MathMax0(Number(NullishOr(opts.max402Retries, JNum(1))))
          /\ defaultProofHeader' = FirstTruthy(<<opts.proofHeader, S_xL402Proof>>)
          /\ baseInit' = init
          /\ attempt' = 0
          /\ requests' = Append(requests, Request(input, init))
          /\ pc' = "fetch"
          /\ UNCHANGED outcome
  /\ UNCHANGED <<harnessVars, opts, input, init, res, challenge, responses, payCalls, payResults,
                 textCalls, bodyTexts>>

\* FetchResolve that returns at once only a 200 (or when the retries are used up)
FetchResolve_only200 ==
  /\ pc = "fetch"
  /\ \E i \in 1..Len(Responses) :
       /\ res' = Len(responses) + 1
       /\ IF Responses[i].status = 200 \/ GreaterEq(attempt, maxRetries)
          THEN /\ responses' = Append(responses, Responses[i])
               /\ outcome' = Returned(Len(responses) + 1)
               /\ pc' = "done"
               /\ UNCHANGED textCalls
          ELSE /\ responses' = Append(responses, [Responses[i] EXCEPT !.bodyUsed = TRUE])
               /\ textCalls' = textCalls + 1
               /\ pc' = "text"
               /\ UNCHANGED outcome
  /\ UNCHANGED <<harnessVars, opts, input, init, maxRetries, defaultProofHeader, baseInit, attempt,
                 challenge, requests, payCalls, payResults, bodyTexts>>

\* res.text(): the body of the response is consumed from the call on
TextCalled(r) == [r EXCEPT !.bodyUsed = TRUE]

\* the transport answers; the loop body runs up to `await res.text()'
FetchResolve ==
  /\ pc = "fetch"
  /\ \E i \in 1..Len(Responses) :
       /\ res' = Len(responses) + 1
       /\ IF Responses[i].status /= 402 \/ GreaterEq(attempt, maxRetries)
          THEN /\ responses' = Append(responses, Responses[i])
               /\ outcome' = Returned(Len(responses) + 1)
               /\ pc' = "done"
               /\ UNCHANGED textCalls
          ELSE /\ responses' = Append(responses, TextCalled(Responses[i]))
               /\ textCalls' = textCalls + 1
               /\ pc' = "text"
               /\ UNCHANGED outcome
  /\ UNCHANGED <<harnessVars, opts, input, init, maxRetries, defaultProofHeader, baseInit, attempt,
                 challenge, requests, payCalls, payResults, bodyTexts>>

\* FetchReject with the failed transport call sent again
FetchReject_retried ==
  /\ pc = "fetch"
  /\ Len(requests) < MaxSends
  /\ requests' = Append(requests, Request(input, baseInit))
  /\ UNCHANGED <<harnessVars, opts, input, init, pc, maxRetries, defaultProofHeader, baseInit,
                 attempt, res, challenge, responses, payCalls, payResults, textCalls,
                 bodyTexts, outcome>>

\* the transport call fails
FetchReject ==
  /\ pc = "fetch"
  /\ \E e \in TransportErrors : outcome' = Threw(e)
  /\ pc' = "done"
  /\ UNCHANGED <<harnessVars, opts, input, init, maxRetries, defaultProofHeader, baseInit, attempt,
                 res, challenge, responses, requests, payCalls, payResults, textCalls,
                 bodyTexts>>

\* the rest of the loop body once bodyText is known, up to `await opts.pay(challenge)'
AfterText(bodyText) ==
  /\ bodyTexts' = Append(bodyTexts, bodyText)
  /\ challenge' = parseChallenge(responses[res].wwwAuthenticate, bodyText)
  /\ IF challenge' = NoChallenge
     THEN /\ outcome' = Returned(res)
          /\ pc' = "done"
          /\ UNCHANGED payCalls
     ELSE /\ payCalls' = Append(payCalls, challenge')
          /\ pc' = "pay"
          /\ UNCHANGED outcome
  /\ UNCHANGED <<harnessVars, opts, input, init, maxRetries, defaultProofHeader, baseInit, attempt,
                 res, responses, requests, payResults, textCalls>>

\* res.text() yields the body
TextResolve ==
  /\ pc = "text"
  /\ AfterText(responses[res].body)

\* res.text() fails: .catch(() => '')
TextReject ==
  /\ pc = "text"
  /\ AfterText(TextBody)

\* PayResolve with the precedence turned around: the configured name before the hint
PayResolve_defaultFirst ==
  /\ pc = "pay"
  /\ Len(requests) < MaxSends
  /\ \E proof \in Proofs :
       LET hdrName == FirstTruthy(<<defaultProofHeader, challenge.proofHeader>>)
           headers == HeadersSet(baseInit.headers, hdrName, proof)
       IN /\ payResults' = Append(payResults, [ok |-> TRUE, proof |-> proof])
          /\ IF HeadersSetThrows(hdrName, proof)
             THEN /\ outcome' = Threw("TypeError")
                  /\ pc' = "done"
                  /\ UNCHANGED <<baseInit, attempt, requests>>
             ELSE /\ baseInit' = [baseInit EXCEPT !.headers = headers]
                  /\ attempt' = attempt + 1
                  /\ requests' = Append(requests, Request(input, baseInit'))
                  /\ pc' = "fetch"
                  /\ UNCHANGED outcome
  /\ UNCHANGED <<harnessVars, opts, input, init, maxRetries, defaultProofHeader, res, challenge,
                 responses, payCalls, textCalls, bodyTexts>>

\* pay resolves with a proof; the loop attaches it and sends the retry
PayResolve ==
  /\ pc = "pay"
  /\ Len(requests) < MaxSends
  /\ \E proof \in Proofs :
       LET hdrName == FirstTruthy(<<challenge.proofHeader, defaultProofHeader>>)
           headers == HeadersSet(baseInit.headers, hdrName, proof)
       IN /\ payResults' = Append(payResults, [ok |-> TRUE, proof |-> proof])
          /\ IF HeadersSetThrows(hdrName, proof)
             THEN /\ outcome' = Threw("TypeError")
                  /\ pc' = "done"
                  /\ UNCHANGED <<baseInit, attempt, requests>>
             ELSE /\ baseInit' = [baseInit EXCEPT !.headers = headers]
                  /\ attempt' = attempt + 1
                  /\ requests' = Append(requests, Request(input, baseInit'))
                  /\ pc' = "fetch"
                  /\ UNCHANGED outcome
  /\ UNCHANGED <<harnessVars, opts, input, init, maxRetries, defaultProofHeader, res, challenge,
                 responses, payCalls, textCalls, bodyTexts>>

\* PayReject with the rejection swallowed: the loop goes on to the retry without a proof
PayReject_swallowed ==
  /\ pc = "pay"
  /\ Len(requests) < MaxSends
  /\ \E e \in PayErrors : payResults' = Append(payResults, [ok |-> FALSE, error |-> e])
  /\ attempt' = attempt + 1
  /\ requests' = Append(requests, Request(input, baseInit))
  /\ pc' = "fetch"
  /\ UNCHANGED <<harnessVars, opts, input, init, maxRetries, defaultProofHeader, baseInit, res, challenge,
                 responses, payCalls, textCalls, bodyTexts, outcome>>

\* pay rejects (or throws): the rejection leaves fetchWithL402 as it is
PayReject ==
  /\ pc = "pay"
  /\ \E e \in PayErrors :
       /\ payResults' = Append(payResults, [ok |-> FALSE, error |-> e])
       /\ outcome' = Threw(e)
  /\ pc' = "done"
  /\ UNCHANGED <<harnessVars, opts, input, init, maxRetries, defaultProofHeader, baseInit, attempt,
                 res, challenge, responses, requests, payCalls, textCalls, bodyTexts>>

Next ==
  \/ Call
  \/ FetchResolve
  \/ FetchReject
  \/ TextResolve
  \/ TextReject
  \/ PayResolve
  \/ PayReject

Spec == Init /\ [][Next]_vars

(***************************************************************************)
(* The parsers by themselves: a server writes challenges into a 402        *)
(* response, and the response is parsed.                                   *)
(***************************************************************************)
\* a parameter of a challenge, to be written as name=value or name="value"
Param(name, value, quoted) == [name |-> name, value |-> value, quoted |-> quoted]

\* a challenge: its scheme token, whether a comma follows the scheme
\* (`L402, invoice=...'), and its parameters
\* a challenge whose parameters are separated by seps[1], seps[2], ...
ChallengeSep(scheme, comma, params, seps) ==
  [scheme |-> scheme, comma |-> comma, params |-> params, seps |-> seps]

\* parts.join(', '): the separator between any two parameters
CommaSpace == <<",", " ">>

Challenge(scheme, comma, params) ==
  ChallengeSep(scheme, comma, params, [i \in 1..(Len(params) - 1) |-> CommaSpace])

\* a value as a quoted-string: each " and each \ gets a \ in front of it
RECURSIVE Escape(_)
Escape(s) ==
  IF s = <<>> THEN <<>>
  ELSE (IF s[1] \in {"\"", "\\"} THEN <<"\\", s[1]>> ELSE <<s[1]>>) \o Escape(Tail(s))

RenderParam(p) ==
  p.name \o <<"=">> \o
  (IF p.quoted THEN <<"\"">> \o Escape(p.value) \o <<"\"">> ELSE p.value)

\* parts.join(', ')
RECURSIVE Join(_)
Join(parts) ==
  IF parts = <<>> THEN <<>>
  ELSE IF Len(parts) = 1 THEN parts[1]
  ELSE parts[1] \o <<",", " ">> \o Join(Tail(parts))

\* the parameters from the k-th on, each but the last followed by its separator
RECURSIVE RenderParams(_, _, _)
RenderParams(params, seps, k) ==
  IF k > Len(params) THEN <<>>
  ELSE RenderParam(params[k]) \o
       (IF k < Len(params) THEN seps[k] ELSE <<>>) \o RenderParams(params, seps, k + 1)

RenderChallenge(c) ==
  c.scheme \o (IF c.comma THEN <<",">> ELSE <<>>) \o
  (IF c.params = <<>> THEN <<>> ELSE <<" ">> \o RenderParams(c.params, c.seps, 1))

\* the value of the WWW-Authenticate header for a list of challenges: Null
\* (no such header) for the empty list
RenderHeader(cs) ==
  IF cs = <<>> THEN Null ELSE Join([i \in 1..Len(cs) |-> RenderChallenge(cs[i])])

\* what a server sends: the challenges of the WWW-Authenticate header (none
\* for no header) and the body
Sent(challenges, body) == [challenges |-> challenges, body |-> body]

ToUpperChar(c) ==
  IF \E i \in 1..26 : LowerLetters[i] = c
  THEN UpperLetters[CHOOSE i \in 1..26 : LowerLetters[i] = c]
  ELSE c

\* every spelling of s in upper and lower case letters
RECURSIVE CaseVariants(_)
CaseVariants(s) ==
  IF s = <<>> THEN {<<>>}
  ELSE {<<c>> \o r : c \in {ToLowerChar(s[1]), ToUpperChar(s[1])}, r \in CaseVariants(Tail(s))}

\* the scheme tokens the parser is to recognise
SchemeSpellings == CaseVariants(S_l402) \cup CaseVariants(S_lsat)

S_L402 == <<"L","4","0","2">>
S_LSAT == <<"L","S","A","T">>

\* the elements of a list
Range(seq) == {seq[i] : i \in 1..Len(seq)}

\* the object holding obj at the end of a path of keys
RECURSIVE AtPath(_, _)
AtPath(path, obj) ==
  IF path = <<>> THEN obj ELSE Obj1(path[1], AtPath(Tail(path), obj))

\* two objects in one: the keys of both, objects under a common key merged
\* in turn, and the value of a for any other common key
RECURSIVE MergeJ(_, _)
MergeJ(a, b) ==
  IF a.t = "object" /\ b.t = "object"
  THEN JObj([k \in DOMAIN a.o \cup DOMAIN b.o |->
              IF k \notin DOMAIN b.o THEN a.o[k]
              ELSE IF k \notin DOMAIN a.o THEN b.o[k]
              ELSE MergeJ(a.o[k], b.o[k])])
  ELSE a

\* the paths of the array `candidates' of parseJsonChallenge, in its order
CandidatePaths ==
  <<<<>>, <<S_l402>>, <<S_challenge>>, <<S_data>>, <<S_details>>, <<S_result>>,
    <<S_payment>>, <<S_error>>, <<S_error, S_l402>>, <<S_error, S_data>>,
    <<S_data, S_l402>>, <<S_data, S_challenge>>>>

\* header challenges with and without a proof-header parameter
HintParamChoices ==
  {<<>>} \cup
  {<<Param(n, v, TRUE)>> :
     n \in Range(ProofHeaderParamAliases) \cup {<<"P","r","o","o","f","_","H","e","a","d","e","r">>},
     v \in {S_xPaid, <<>>}}

HintedHeaders ==
  {<<Challenge(sch, FALSE, <<Param(S_invoice, S_lnbc1, TRUE)>> \o mac \o hp)>> :
     sch \in {S_L402, S_LSAT},
     mac \in {<<>>, <<Param(S_macaroon, S_m1, TRUE)>>},
     hp \in HintParamChoices}

\* body challenges with and without a proof-header key
HintKeyChoices ==
  {JObj(EmptyObject)} \cup
  {AtPath(q, Obj1(k, JStr(S_xPaid))) :
     q \in {<<>>, <<S_l402>>, <<S_payment>>, <<S_error, S_data>>},
     k \in Range(ProofHeaderKeyAliases)}

HintedBodies ==
  {MergeJ(AtPath(p, Obj1(S_invoice, JStr(S_lnbc2))), hk) :
     p \in {<<>>, <<S_l402>>, <<S_data, S_challenge>>}, hk \in HintKeyChoices}

S_kind == <<"k","i","n","d">>
S_mock == <<"m","o","c","k">>

\* { invoice, proofHeader, meta: { kind: 'mock' } }
MetaBody ==
  JObj(SetKey(SetKey(SetKey(EmptyObject, S_invoice, JStr(S_lnbc2)),
                     S_proofHeader, JStr(S_xCustom)),
              S_meta, Obj1(S_kind, JStr(S_mock))))

\* responses with a header challenge and a body challenge at once
HeaderAndBody ==
  {Sent(h, JsonBody(MetaBody)) : h \in HintedHeaders}
  \cup {Sent(<<Challenge(S_L402, FALSE, <<Param(S_invoice, S_lnbc1, TRUE)>>)>>, JsonBody(j)) :
           j \in HintedBodies}

S_Bearer == <<"B","e","a","r","e","r">>
S_realm == <<"r","e","a","l","m">>
S_example == <<"e","x","a","m","p","l","e">>
S_blank == <<" ">>

\* Bearer realm="example"
BearerChallenge == Challenge(S_Bearer, FALSE, <<Param(S_realm, S_example, TRUE)>>)

\* headers no segment of which yields an invoice: another scheme, no invoice
\* parameter, an invoice parameter that is empty or blank
FailingHeaders ==
  {<<BearerChallenge>>,
   <<Challenge(S_Bearer, FALSE, <<Param(S_invoice, S_lnbc1, TRUE)>>)>>,
   <<Challenge(<<"L","4","0","2","x">>, FALSE, <<Param(S_invoice, S_lnbc1, TRUE)>>)>>,
   <<Challenge(S_L402, FALSE, <<>>)>>,
   <<Challenge(S_LSAT, TRUE, <<Param(S_macaroon, S_m1, TRUE)>>)>>,
   <<BearerChallenge, Challenge(S_L402, FALSE, <<Param(S_macaroon, S_m1, TRUE)>>)>>}
  \cup {<<Challenge(sch, FALSE, <<Param(S_macaroon, S_m1, TRUE), Param(a, v, TRUE)>>)>> :
           sch \in {S_L402, S_LSAT}, a \in Range(InvoiceParamAliases), v \in {<<>>, S_blank}}

\* bodies that are no challenge
FailingBodies ==
  {TextBody, JsonBody(JArr), JsonBody(JNull), JsonBody(Obj1(S_error, JStr(S_paid))),
   JsonBody(Obj1(S_invoice, JStr(<<>>))), JsonBody(Obj1(S_invoice, JNum(402)))}

HeaderFallsThrough ==
  {Sent(h, b) : h \in FailingHeaders,
                b \in FailingBodies \cup
                      {JsonBody(MetaBody),
                       JsonBody(AtPath(<<S_error, S_data>>, Obj1(S_payreq, JStr(S_lnbc1))))}}

\* longest invoice written into a header
MaxLen == 2

\* the strings over chars of at most n characters
RECURSIVE StringsUpTo(_, _)
StringsUpTo(chars, n) ==
  IF n = 0 THEN {<<>>}
  ELSE LET shorter == StringsUpTo(chars, n - 1)
       IN shorter \cup {<<c>> \o r : c \in chars, r \in {x \in shorter : Len(x) = n - 1}}

\* invoices to be written as quoted-strings: with the characters that are
\* to be escaped, and a blank one
QuotedValues == StringsUpTo({"a", "\"", "\\"}, MaxLen) \cup {S_blank, S_lnbc1}

\* <scheme> <alias>="<escaped invoice>"
QuotedInvoices ==
  {<<Challenge(sch, FALSE, <<Param(al, v, TRUE)>>)>> :
     sch \in SchemeSpellings, al \in Range(InvoiceParamAliases), v \in QuotedValues}

\* invoices to be written as tokens: no ", no comma, no semicolon, no whitespace
TokenValues == StringsUpTo({"a", "=", "\\", "-"}, MaxLen) \cup {S_lnbc1}

\* L402 invoice=<token>
TokenInvoices ==
  {<<Challenge(S_L402, FALSE, <<Param(S_invoice, v, FALSE)>>)>> : v \in TokenValues}

\* values of an invoice key: strings (empty, blank, an invoice) and values
\* that are no strings
KeyValues ==
  {JStr(<<>>), JStr(S_blank), JStr(S_lnbc1), JNull, JNum(0), JBool(FALSE), JArr,
   JObj(EmptyObject)}

\* pairs <<i, k>> of positions in a list of n elements, i before k
PairsBelow(n) == {ik \in (1..n) \X (1..n) : ik[1] < ik[2]}

\* bodies with two invoice aliases in one candidate object, the later one an
\* invoice or empty: every two aliases at the top level, two pairs of them
\* in every candidate object
TwoAliasBodies ==
  {Obj2(InvoiceKeyAliases[ik[1]], v1, InvoiceKeyAliases[ik[2]], v2) :
     ik \in PairsBelow(Len(InvoiceKeyAliases)), v1 \in KeyValues,
     v2 \in {JStr(S_lnbc2), JStr(<<>>)}}
  \cup {AtPath(CandidatePaths[c], Obj2(a[1], v1, a[2], JStr(S_lnbc2))) :
           c \in 1..Len(CandidatePaths), a \in {<<S_invoice, S_payreq>>, <<S_bolt_11, S_boltDash11>>},
           v1 \in KeyValues}

\* bodies with an invoice key in each of two candidate objects
TwoCandidateBodies ==
  {MergeJ(AtPath(CandidatePaths[ik[1]], Obj1(S_invoice, v1)),
          AtPath(CandidatePaths[ik[2]], Obj1(S_pr, JStr(S_lnbc2)))) :
     ik \in PairsBelow(Len(CandidatePaths)), v1 \in KeyValues}

\* most invoice parameters written into one challenge
MaxParams == 2

\* the lists of n different elements of a list
DistinctLists(seq, n) ==
  {[i \in 1..n |-> seq[f[i]]] :
     f \in {g \in [1..n -> 1..Len(seq)] : \A i, k \in 1..n : i /= k => g[i] /= g[k]}}

\* an invoice of its own for each alias: "1" for the first of the list, and so on
OwnValue(name) ==
  <<<<"1">>, <<"2">>, <<"3">>, <<"4">>, <<"5">>, <<"6">>, <<"7">>>>[
    CHOOSE n \in 1..Len(InvoiceParamAliases) : InvoiceParamAliases[n] = name]

\* the lists of values for a list of aliases: each empty, blank, or the
\* alias's own
RECURSIVE ValueLists(_)
ValueLists(names) ==
  IF names = <<>> THEN {<<>>}
  ELSE {<<v>> \o r : v \in {<<>>, S_blank, OwnValue(names[1])}, r \in ValueLists(Tail(names))}

\* challenges with several invoice aliases, in any order
SeveralAliases ==
  UNION {{<<Challenge(S_L402, FALSE, [i \in 1..Len(names) |-> Param(names[i], vals[i], TRUE)])>> :
            vals \in ValueLists(names)} :
         names \in UNION {DistinctLists(InvoiceParamAliases, n) : n \in 2..MaxParams}}

S_Basic == <<"B","a","s","i","c">>

\* challenges of other schemes that come first in a combined header
OtherChallenges ==
  {BearerChallenge,
   Challenge(S_Basic, FALSE, <<Param(S_realm, <<"x">>, FALSE)>>),
   Challenge(S_Bearer, FALSE,
             <<Param(S_realm, S_example, TRUE), Param(S_error, S_paid, TRUE),
               Param(S_invoice, S_lnbc2, TRUE)>>)}

\* parameter lists of an L402 challenge
ParamLists ==
  {<<>>,
   <<Param(S_invoice, S_lnbc1, TRUE)>>,
   <<Param(S_macaroon, S_m1, TRUE), Param(S_invoice, S_lnbc1, TRUE)>>,
   <<Param(S_invoice, S_lnbc1, TRUE), Param(S_macaroon, S_m1, TRUE)>>,
   <<Param(S_macaroon, S_m1, FALSE), Param(S_payreq, S_lnbc1, FALSE),
     Param(S_proof_header, S_xPaid, TRUE)>>}

\* an L402 or LSAT challenge in the forms `SCHEME params' and `SCHEME, params',
\* alone or after a challenge of another scheme
CombinedHeaders ==
  {pre \o <<Challenge(sch, comma, ps)>> :
     pre \in {<<>>} \cup {<<o>> : o \in OtherChallenges},
     sch \in {S_L402, S_LSAT, S_l402, <<"L","s","a","t">>},
     comma \in BOOLEAN, ps \in ParamLists}

\* String.prototype.toUpperCase
ToUpperCase(s) == [i \in 1..Len(s) |-> ToUpperChar(s[i])]

\* a parameter name as servers spell it: lower case, upper case, capitalised
Spelt(name, how) ==
  IF how = "upper" THEN ToUpperCase(name)
  ELSE IF how = "capital" THEN <<ToUpperChar(name[1])>> \o Tail(name)
  ELSE name

\* what stands between two parameters
Separators == {<<",">>, CommaSpace, <<";">>, <<";", " ">>, <<" ">>, <<" ", ";", " ">>}

\* the parameter lists of ParamLists with every choice of separators and
\* of the spelling of the names
DelimitedHeaders ==
  UNION {{<<ChallengeSep(sch, FALSE,
                         [i \in 1..Len(ps) |-> [ps[i] EXCEPT !.name = Spelt(ps[i].name, how)]],
                         seps)>> :
            sch \in {S_L402, S_LSAT}, how \in {"lower", "upper", "capital"},
            seps \in [1..(Len(ps) - 1) -> Separators]} :
         ps \in ParamLists}

\* the responses the parsers are tried on
\* the paths of the array `proofHintCandidates' of parseJsonChallenge, in its order
HintCandidatePaths ==
  <<<<>>, <<S_l402>>, <<S_challenge>>, <<S_data>>, <<S_details>>, <<S_result>>,
    <<S_error>>, <<S_error, S_l402>>, <<S_data, S_l402>>, <<S_data, S_challenge>>>>

\* bodies with an invoice in data.l402 and two hint aliases in one candidate
\* object, the later one a header name: every two aliases at the top level,
\* two pairs of them in every candidate object
TwoHintAliasBodies ==
  {MergeJ(AtPath(<<S_data, S_l402>>, Obj1(S_invoice, JStr(S_lnbc2))),
          AtPath(HintCandidatePaths[c], Obj2(a[1], v1, a[2], JStr(S_xPaid)))) :
     c \in 1..Len(HintCandidatePaths),
     a \in {<<S_proofHeader, S_proof_header>>, <<S_proofDashHeader, S_header>>},
     v1 \in KeyValues}
  \cup {Obj2(S_pr, JStr(S_lnbc2), S_xCustom, JStr(S_json))}
  \cup {MergeJ(Obj1(S_pr, JStr(S_lnbc2)),
               Obj2(ProofHeaderKeyAliases[ik[1]], v1, ProofHeaderKeyAliases[ik[2]], JStr(S_xPaid))) :
          ik \in PairsBelow(Len(ProofHeaderKeyAliases)), v1 \in KeyValues}

\* bodies with an invoice at the top level and a hint key in each of two
\* candidate objects
TwoHintCandidateBodies ==
  {MergeJ(Obj1(S_invoice, JStr(S_lnbc2)),
          MergeJ(AtPath(HintCandidatePaths[ik[1]], Obj1(S_header, v1)),
                 AtPath(HintCandidatePaths[ik[2]], Obj1(S_proofHeader, JStr(S_xPaid))))) :
     ik \in PairsBelow(Len(HintCandidatePaths)), v1 \in KeyValues}

SentChoices ==
  {Sent(h, TextBody) : h \in HintedHeaders}
  \cup {Sent(<<>>, JsonBody(j)) : j \in HintedBodies}
  \cup HeaderAndBody
  \cup HeaderFallsThrough
  \cup {Sent(h, TextBody) : h \in QuotedInvoices}
  \cup {Sent(h, TextBody) : h \in TokenInvoices}
  \cup {Sent(h, TextBody) : h \in SeveralAliases}
  \cup {Sent(h, TextBody) : h \in CombinedHeaders}
  \cup {Sent(h, TextBody) : h \in DelimitedHeaders}
  \cup {Sent(<<>>, JsonBody(j)) : j \in TwoAliasBodies \cup TwoCandidateBodies}
  \cup {Sent(<<>>, JsonBody(j)) : j \in TwoHintAliasBodies \cup TwoHintCandidateBodies}

\* fetchWithL402 is not called while the parsers are tried
NoCall ==
  /\ opts = Options(TRUE, Undefined, JUndefined)
  /\ input = "https://example.test/paid"
  /\ init = [method |-> "GET", body |-> "", headers |-> EmptyObject]
  /\ pc = "idle"
  /\ maxRetries = JUndefined
  /\ defaultProofHeader = Undefined
  /\ baseInit = init
  /\ attempt = 0
  /\ res = 0
  /\ challenge = NoChallenge
  /\ responses = <<>>
  /\ requests = <<>>
  /\ payCalls = <<>>
  /\ payResults = <<>>
  /\ textCalls = 0
  /\ bodyTexts = <<>>
  /\ outcome = Pending

ParseInit ==
  /\ NoCall
  /\ sent \in SentChoices
  /\ received = Response(402, RenderHeader(sent.challenges), sent.body)
  /\ stage = "received"
  /\ headerChallenge = NoChallenge
  /\ bodyChallenge = NoChallenge
  /\ parsed = NoChallenge
  /\ PairIdle

\* the response is parsed: by parseChallenge, and by each of its two parts
Parse ==
  /\ stage = "received"
  /\ headerChallenge' = parseWwwAuthenticateL402(received.wwwAuthenticate)
  /\ bodyChallenge' = parseJsonChallenge(received.body)
  /\ parsed' = parseChallenge(received.wwwAuthenticate, received.body)
  /\ stage' = "parsed"
  /\ UNCHANGED <<pairVars, server, sent, received, opts, input, init, pc, maxRetries, defaultProofHeader,
                 baseInit, attempt, res, challenge, responses, requests, payCalls,
                 payResults, textCalls, bodyTexts, outcome>>

ParseNext == Parse

ParseSpec == ParseInit /\ [][ParseNext]_vars

(***************************************************************************)
(* Two calls of fetchWithL402 under way at once.  Objects live in two      *)
(* heaps and are named by their index, so that a call working on an object *)
(* of the caller, or of the other call, shows.                             *)
(***************************************************************************)
Calls == {1, 2}

\* max402Retries of both calls
PairRetries == 1

\* the headers the caller passes
CallerHeaders == SetKey(SetKey(EmptyObject, S_accept, S_json), S_authorization, S_caller)

\* the proof that the pay callback of call c returns at its n-th invocation
ProofOf(c, n) == <<"p", <<"1", "2">>[c], <<"1", "2", "3", "4">>[n]>>

\* the proof-header hints of the challenges the server sends
PairHints == {Undefined, S_xPaid, S_authorization}

\* baseInit = init in place of a copy: the call works on the caller's object
BaseInitRef_aliased(objs, ref) == ref

\* const baseInit = { ...init }: the new object is the last of objs \o <<copy>>
BaseInitRef(objs, ref) == Len(objs) + 1

\* new Headers(h): the entries of the headers object h, in an object of its own
NewHeaders(heap, ref) == heap[ref]

\* what the caller hands over: one init for both calls, two inits with the
\* same headers object, or two inits with a headers object each
PairInit ==
  /\ NoCall
  /\ ParserIdle
  /\ \E share \in {"init", "headers", "none"} :
       /\ initObjects = IF share = "init"
                        THEN <<[headers |-> 1]>>
                        ELSE <<[headers |-> 1], [headers |-> IF share = "headers" THEN 1 ELSE 2]>>
       /\ headersObjects = IF share = "none" THEN <<CallerHeaders, CallerHeaders>>
                                             ELSE <<CallerHeaders>>
       /\ call = [c \in Calls |->
                   [pc |-> "idle", init |-> IF share = "init" THEN 1 ELSE c, baseInit |-> 0,
                    attempt |-> 0, hint |-> Undefined, requests |-> <<>>, proofs |-> <<>>,
                    outcome |-> Pending]]
  /\ original = [inits |-> initObjects, headers |-> headersObjects]
  /\ server = Nothing

PairFrame ==
  UNCHANGED <<parserVars, server, original, opts, input, init, pc, maxRetries, defaultProofHeader,
              baseInit, attempt, res, challenge, responses, requests, payCalls, payResults,
              textCalls, bodyTexts, outcome>>

\* call c, up to its first await: baseInit is made and the first request sent
PairCall(c) ==
  /\ call[c].pc = "idle"
  /\ initObjects' = Append(initObjects, initObjects[call[c].init])
  /\ LET b == BaseInitRef(initObjects, call[c].init)
     IN call' = [call EXCEPT ![c].pc = "fetch",
                             ![c].baseInit = b,
                             ![c].requests =
                               <<NewHeaders(headersObjects, initObjects'[b].headers)>>]
  /\ UNCHANGED headersObjects
  /\ PairFrame

\* the transport answers call c: with a 200, or with a 402 and a challenge
PairFetchResolve(c) ==
  /\ call[c].pc = "fetch"
  /\ \E status \in {200, 402}, hint \in PairHints :
       call' = IF status /= 402 \/ call[c].attempt >= PairRetries
               THEN [call EXCEPT ![c].pc = "done", ![c].outcome = Returned(status)]
               ELSE [call EXCEPT ![c].pc = "text", ![c].hint = hint]
  /\ UNCHANGED <<initObjects, headersObjects>>
  /\ PairFrame

\* the transport call of call c fails
PairFetchReject(c) ==
  /\ call[c].pc = "fetch"
  /\ \E e \in TransportErrors : call' = [call EXCEPT ![c].pc = "done", ![c].outcome = Threw(e)]
  /\ UNCHANGED <<initObjects, headersObjects>>
  /\ PairFrame

\* the body of the 402 is read (or not), the challenge parsed, pay called
PairText(c) ==
  /\ call[c].pc = "text"
  /\ call' = [call EXCEPT ![c].pc = "pay"]
  /\ UNCHANGED <<initObjects, headersObjects>>
  /\ PairFrame

\* pay resolves for call c: a new Headers object is filled from
\* baseInit.headers, takes the proof, becomes baseInit.headers, and the retry
\* is sent with a copy of it
PairPayResolve(c) ==
  /\ call[c].pc = "pay"
  /\ LET proof == ProofOf(c, call[c].attempt + 1)
         hdrName == FirstTruthy(<<call[c].hint, S_xL402Proof>>)
         b == call[c].baseInit
         headers == Len(headersObjects) + 1
     IN /\ headersObjects' =
             Append(headersObjects,
                    HeadersSet(NewHeaders(headersObjects, initObjects[b].headers),
                               hdrName, proof))
        /\ initObjects' = [initObjects EXCEPT ![b].headers = headers]
        /\ call' = [call EXCEPT ![c].pc = "fetch",
                                ![c].attempt = @ + 1,
                                ![c].proofs = Append(@, proof),
                                ![c].requests =
                                  Append(@, NewHeaders(headersObjects', initObjects'[b].headers))]
  /\ PairFrame

\* pay rejects for call c
PairPayReject(c) ==
  /\ call[c].pc = "pay"
  /\ \E e \in PayErrors : call' = [call EXCEPT ![c].pc = "done", ![c].outcome = Threw(e)]
  /\ UNCHANGED <<initObjects, headersObjects>>
  /\ PairFrame

PairNext ==
  \E c \in Calls :
    \/ PairCall(c)
    \/ PairFetchResolve(c)
    \/ PairFetchReject(c)
    \/ PairText(c)
    \/ PairPayResolve(c)
    \/ PairPayReject(c)

PairSpec == PairInit /\ [][PairNext]_vars

(***************************************************************************)
(* The mock server, and one call of fetchWithL402 against it.              *)
(***************************************************************************)
S_lnbc1mockinvoice == <<"l","n","b","c","1","m","o","c","k","i","n","v","o","i","c","e">>
S_mockmacaroon == <<"m","o","c","k","m","a","c","a","r","o","o","n">>
S_ok == <<"o","k">>

\* the shapes of JSON challenge the server can be asked for
JsonVariants ==
  {"flat", "l402", "challenge", "data", "details", "error", "error.l402", "data.l402",
   "data.challenge"}

\* the names the server can be asked to give the invoice field
InvoiceKeys ==
  {S_invoice, S_payment_request, S_paymentRequest, S_payreq, S_pr, S_bolt11, S_boltDash11,
   S_bolt_11}

MockL402ServerOpts(proofHeader, inHeader, variant, invoiceKey, hint) ==
  [proofHeader |-> proofHeader, requiredProof |-> Undefined,
   challengeInHeader |-> inHeader, challengeJsonVariant |-> variant,
   invoiceKey |-> invoiceKey, includeProofHeaderHint |-> hint]

\* the options the server is started with
MockChoices ==
  {MockL402ServerOpts(ph, FALSE, v, k, hint) :
     ph \in {Undefined, S_xPaid}, v \in JsonVariants \cup {"undefined"},
     k \in InvoiceKeys \cup {Undefined}, hint \in BOOLEAN}
  \cup {MockL402ServerOpts(Undefined, TRUE, "undefined", k, hint) :
          k \in {Undefined, S_pr}, hint \in {FALSE}}

\* the constants startMockL402Server derives from its options
startMockL402Server(o) ==
  [proofHeader |-> ToLowerCase(FirstTruthy(<<o.proofHeader, S_xL402Proof>>)),
   requiredProof |-> FirstTruthy(<<o.requiredProof, S_paid>>),
   challengeInHeader |-> o.challengeInHeader,
   challengeJsonVariant |->
     IF o.challengeJsonVariant = "undefined" THEN "flat" ELSE o.challengeJsonVariant,
   invoiceKey |-> FirstTruthy(<<o.invoiceKey, S_invoice>>),
   includeProofHeaderHint |-> o.includeProofHeaderHint,
   includeMacaroon |-> TRUE]

\* buildJsonChallenge with variant `error' written as { error: { data: ... } }
buildJsonChallenge_errorData(o) ==
  LET invoiceOnly == SetKey(EmptyObject, o.invoiceKey, JStr(S_lnbc1mockinvoice))
      base == IF o.includeProofHeaderHint
              THEN SetKey(invoiceOnly, S_proofHeader, JStr(o.proofHeader))
              ELSE invoiceOnly
      withMeta == SetKey(base, S_meta, Obj1(S_kind, JStr(S_mock)))
      variant == o.challengeJsonVariant
  IN CASE variant = "flat" -> JObj(withMeta)
       [] variant = "l402" -> Obj1(S_l402, JObj(withMeta))
       [] variant = "challenge" -> Obj1(S_challenge, JObj(base))
       [] variant = "data" -> Obj1(S_data, JObj(base))
       [] variant = "details" -> Obj1(S_details, JObj(base))
       [] variant = "error" -> Obj1(S_error, Obj1(S_data, JObj(base)))
       [] variant = "error.l402" -> Obj1(S_error, Obj1(S_l402, JObj(base)))
       [] variant = "data.l402" -> Obj1(S_data, Obj1(S_l402, JObj(base)))
       [] variant = "data.challenge" -> Obj1(S_data, Obj1(S_challenge, JObj(base)))
       [] OTHER -> JObj(base)

buildJsonChallenge(o) ==
  LET invoiceOnly == SetKey(EmptyObject, o.invoiceKey, JStr(S_lnbc1mockinvoice))
      base == IF o.includeProofHeaderHint
              THEN SetKey(invoiceOnly, S_proofHeader, JStr(o.proofHeader))
              ELSE invoiceOnly
      withMeta == SetKey(base, S_meta, Obj1(S_kind, JStr(S_mock)))
      variant == o.challengeJsonVariant
  IN CASE variant = "flat" -> JObj(withMeta)
       [] variant = "l402" -> Obj1(S_l402, JObj(withMeta))
       [] variant = "challenge" -> Obj1(S_challenge, JObj(base))
       [] variant = "data" -> Obj1(S_data, JObj(base))
       [] variant = "details" -> Obj1(S_details, JObj(base))
       [] variant = "error" -> Obj1(S_error, JObj(base))
       [] variant = "error.l402" -> Obj1(S_error, Obj1(S_l402, JObj(base)))
       [] variant = "data.l402" -> Obj1(S_data, Obj1(S_l402, JObj(base)))
       [] variant = "data.challenge" -> Obj1(S_data, Obj1(S_challenge, JObj(base)))
       [] OTHER -> JObj(base)

\* the WWW-Authenticate header of the server: parts.join(', ')
MockHeader(o) ==
  Join(<<S_L402>>
       \o (IF o.includeMacaroon THEN <<RenderParam(Param(S_macaroon, S_mockmacaroon, TRUE))>>
           ELSE <<>>)
       \o <<RenderParam(Param(S_invoice, S_lnbc1mockinvoice, TRUE))>>
       \o (IF o.invoiceKey /= S_invoice
           THEN <<RenderParam(Param(o.invoiceKey, S_lnbc1mockinvoice, TRUE))>>
           ELSE <<>>)
       \o (IF o.includeProofHeaderHint
           THEN <<RenderParam(Param(S_proof_header, o.proofHeader, TRUE))>>
           ELSE <<>>))

\* 200 {"ok":true,"paid":true}
R_MockPaid == Response(200, Null, JsonBody(Obj2(S_ok, JBool(TRUE), S_paid, JBool(TRUE))))

\* the request handler of the server, for a request to the paid path
MockRespond(o, request) ==
  LET given == Prop(request.headers, o.proofHeader)
      proof == IF Truthy(given) THEN given ELSE <<>>
  IN IF proof /= o.requiredProof
     THEN IF o.challengeInHeader
          THEN Response(402, MockHeader(o), TextBody)
          ELSE Response(402, Null, JsonBody(buildJsonChallenge(o)))
     ELSE R_MockPaid

\* a call with a pay callback and no other option, against a server just started
MockInit ==
  /\ opts = Options(TRUE, Undefined, JUndefined)
  /\ input = "https://example.test/paid"
  /\ init \in InitChoices
  /\ pc = "idle"
  /\ maxRetries = JUndefined
  /\ defaultProofHeader = Undefined
  /\ baseInit = init
  /\ attempt = 0
  /\ res = 0
  /\ challenge = NoChallenge
  /\ responses = <<>>
  /\ requests = <<>>
  /\ payCalls = <<>>
  /\ payResults = <<>>
  /\ textCalls = 0
  /\ bodyTexts = <<>>
  /\ outcome = Pending
  /\ ParserIdle
  /\ initObjects = <<>>
  /\ headersObjects = <<>>
  /\ original = Nothing
  /\ call = Nothing
  /\ server \in {startMockL402Server(o) : o \in MockChoices}

\* the server answers the request in flight; the loop body runs up to
\* `await res.text()'
MockFetchResolve ==
  /\ pc = "fetch"
  /\ LET r == MockRespond(server, requests[Len(requests)])
     IN /\ res' = Len(responses) + 1
        /\ IF r.status /= 402 \/ GreaterEq(attempt, maxRetries)
           THEN /\ responses' = Append(responses, r)
                /\ outcome' = Returned(Len(responses) + 1)
                /\ pc' = "done"
                /\ UNCHANGED textCalls
           ELSE /\ responses' = Append(responses, TextCalled(r))
                /\ textCalls' = textCalls + 1
                /\ pc' = "text"
                /\ UNCHANGED outcome
  /\ UNCHANGED <<harnessVars, opts, input, init, maxRetries, defaultProofHeader, baseInit,
                 attempt, challenge, requests, payCalls, payResults, bodyTexts>>

MockNext ==
  \/ Call
  \/ MockFetchResolve
  \/ FetchReject
  \/ TextResolve
  \/ TextReject
  \/ PayResolve
  \/ PayReject

MockSpec == MockInit /\ [][MockNext]_vars

(***************************************************************************)
(* Properties                                                              *)
(***************************************************************************)
\* the caller passed a pay callback
HasPay == opts.given /\ opts.pay

\* C1: for a non-negative integer max402Retries = N, at every point of the
\* call pay has been invoked at most N times and the transport at most
\* N + 1 times; with max402Retries absent, at most once and at most twice.
C1_RetryBound ==
  /\ (HasPay /\ opts.max402Retries.t = "number" /\ opts.max402Retries.n >= 0) =>
       /\ Len(payCalls) <= opts.max402Retries.n
       /\ Len(requests) <= opts.max402Retries.n + 1
  /\ (HasPay /\ opts.max402Retries.t = "undefined") =>
       /\ Len(payCalls) <= 1
       /\ Len(requests) <= 2

\* a call with max402Retries = 2 that has paid twice and sent three requests
C1_Witness ==
  /\ opts.max402Retries = JNum(2)
  /\ Len(payCalls) = 2
  /\ Len(requests) = 3

\* C2: once a pay invocation has failed, the call is over and has rejected
\* with that failure, the failed invocation is the last one, and no
\* transport call was made after it.
C2_PayFailureIsFatal ==
  \A i \in 1..Len(payResults) :
    ~payResults[i].ok =>
      /\ i = Len(payResults)
      /\ i = Len(payCalls)
      /\ Len(requests) = i
      /\ pc = "done"
      /\ outcome = Threw(payResults[i].error)

\* the second pay of a call fails after the first one succeeded
C2_Witness ==
  /\ Len(payResults) = 2
  /\ payResults[1].ok
  /\ ~payResults[2].ok
  /\ outcome.kind = "threw"

\* C3: without a pay callback (or without options) the call fails with the
\* configuration error and no transport call, body read or pay is ever made.
C3_NoPayNoIO ==
  ~HasPay =>
    /\ requests = <<>>
    /\ textCalls = 0
    /\ bodyTexts = <<>>
    /\ payCalls = <<>>
    /\ pc \in {"idle", "done"}
    /\ pc = "done" => outcome = Threw(ConfigError)

\* a call without options has ended
C3_Witness ==
  /\ ~opts.given
  /\ pc = "done"
  /\ outcome = Threw(ConfigError)
\* the response as the transport produced it
AsProduced(r) == [r EXCEPT !.bodyUsed = FALSE]

\* the retry bound N of the claims: max402Retries clamped to at least 0, 1 when absent
HasBound == HasPay /\ opts.max402Retries.t \in {"number", "undefined"}
BoundN ==
  IF opts.max402Retries.t = "undefined" THEN 1
  ELSE IF opts.max402Retries.n < 0 THEN 0 ELSE opts.max402Retries.n

\* C4: the call rejects only when the pay callback is missing, when the
\* pay callback failed, or when a transport call failed; and every
\* successful pay is followed by the retry request.
C4_RejectsOnlyInThreeCases ==
  /\ outcome.kind = "threw" =>
       \/ ~HasPay /\ outcome.error = ConfigError
       \/ /\ payResults /= <<>>
          /\ ~payResults[Len(payResults)].ok
          /\ outcome.error = payResults[Len(payResults)].error
       \/ outcome.error \in TransportErrors
  /\ \A k \in 1..Len(payResults) : payResults[k].ok => Len(requests) >= k + 1

\* default options
DefaultOptions == HasPay /\ opts.proofHeader = Undefined /\ opts.max402Retries = JUndefined

\* the first response is the 402 whose body is {"invoice":"lnbc1"}, and its body was read
C5_Case ==
  /\ DefaultOptions
  /\ Len(bodyTexts) >= 1
  /\ AsProduced(responses[1]) = R_402Json
  /\ bodyTexts[1] = R_402Json.body

\* C5: with default options and a first response 402 {"invoice":"lnbc1"}
\* (no challenge header, no hint), pay is called exactly once, with that
\* invoice; a proof it returns is sent in x-l402-proof by exactly one
\* retry; and the response returned is the one of the retry.
C5_JsonChallengePaidAndRetried ==
  C5_Case =>
    /\ Len(payCalls) = 1
    /\ payCalls[1].invoice = S_lnbc1
    /\ Len(requests) <= 2
    /\ (payResults /= <<>> /\ payResults[1].ok) =>
         /\ Len(requests) = 2
         /\ S_xL402Proof \in DOMAIN requests[2].headers
         /\ requests[2].headers[S_xL402Proof] = payResults[1].proof
    /\ Len(responses) = 2 => outcome = Returned(2)
    /\ outcome.kind = "returned" => outcome.res = 2

\* the retry of such a call was answered 200, and the call returned it
C5_Witness ==
  /\ C5_Case
  /\ Len(responses) = 2
  /\ responses[2].status = 200
  /\ outcome = Returned(2)

\* the first response is a 402 with the header L402 macaroon="m1", invoice="lnbc1"
\* or LSAT macaroon="m1", payreq="lnbc1"
C6_Case ==
  /\ Len(responses) >= 1
  /\ AsProduced(responses[1]) \in {R_402L402, R_402LSAT}

C6_Challenge ==
  [invoice |-> S_lnbc1, proofHeader |-> S_authorization, meta |-> Obj1(S_macaroon, JStr(S_m1))]

C6_RetryCarriesAuthorization ==
  (payResults /= <<>> /\ payResults[1].ok) =>
     /\ Len(requests) >= 2
     /\ S_authorization \in DOMAIN requests[2].headers
     /\ requests[2].headers[S_authorization] = payResults[1].proof

\* C6 as stated: whatever the options, a call whose first response carries
\* such a header calls pay exactly once, with invoice, macaroon and
\* proofHeader = "authorization", and the retry carries authorization.
C6_PaysExactlyOnce ==
  (C6_Case /\ pc = "done") =>
    /\ Len(payCalls) = 1
    /\ payCalls[1] = C6_Challenge
    /\ C6_RetryCarriesAuthorization

\* C6, amended: with max402Retries at least 1 (absent counts as 1), the
\* first pay call of such a call has invoice, macaroon and proofHeader =
\* "authorization" of the header, a proof it returns is sent in the
\* authorization header of the retry, and with max402Retries = 1 pay is
\* called exactly once.
C6_HeaderChallengePaid ==
  (C6_Case /\ HasBound /\ BoundN >= 1) =>
    /\ (pc = "done" \/ Len(bodyTexts) >= 1) =>
         /\ Len(payCalls) >= 1
         /\ payCalls[1] = C6_Challenge
    /\ C6_RetryCarriesAuthorization
    /\ BoundN = 1 => Len(payCalls) <= 1

\* such a call, with default options, has paid and returned the response of the retry
C6_Witness ==
  /\ C6_Case
  /\ DefaultOptions
  /\ Len(payCalls) = 1
  /\ payResults /= <<>>
  /\ payResults[1].ok
  /\ outcome = Returned(2)

\* a 402 with no recognised challenge header and a body that is not JSON,
\* not a JSON object, or without an invoice
C7_Unparseable(r) == AsProduced(r) \in {R_402Text, R_402Bearer, R_402NoInvoice}

\* C7: when the latest response is a 402 from which no challenge can be
\* parsed, pay is not called for it and no request follows it, and the
\* call returns that response.
C7_UnparseableIsReturned ==
  LET k == Len(responses)
  IN (k >= 1 /\ C7_Unparseable(responses[k])) =>
       /\ Len(payCalls) = k - 1
       /\ Len(requests) = k
       /\ pc \in {"text", "done"}
       /\ pc = "done" => outcome = Returned(k)

\* the response to a retry was parsed without result and returned
C7_Witness ==
  /\ Len(responses) = 2
  /\ C7_Unparseable(responses[2])
  /\ Len(bodyTexts) = 2
  /\ outcome = Returned(2)

\* the call returned a 402 while retries were left: its challenge could not be parsed
ReturnedUnparsed ==
  /\ outcome.kind = "returned"
  /\ responses[outcome.res].status = 402
  /\ ~GreaterEq(attempt, maxRetries)

\* C8: a 402 returned because its challenge could not be parsed is the
\* response as the transport produced it, its body not consumed.
C8_ReturnedUnparsedIsUntouched ==
  ReturnedUnparsed =>
    /\ \E i \in 1..Len(Responses) : responses[outcome.res] = Responses[i]
    /\ ~responses[outcome.res].bodyUsed

\* every response so far was a 402 with a parseable challenge whose body
\* could be read, every pay succeeded and no transport call failed
C9_Case ==
  /\ HasBound
  /\ \A k \in 1..Len(responses) :
       /\ responses[k].status = 402
       /\ parseChallenge(responses[k].wwwAuthenticate, responses[k].body) /= NoChallenge
  /\ \A k \in 1..Len(bodyTexts) : bodyTexts[k] = responses[k].body
  /\ \A k \in 1..Len(payResults) : payResults[k].ok
  /\ outcome.kind = "threw" => outcome.error \notin TransportErrors

\* C9: against a transport that always answers 402 with a parseable
\* challenge, with pay always succeeding, the call ends by returning the
\* last response after exactly N pay calls and N + 1 transport calls.
C9_ExhaustsRetries ==
  (C9_Case /\ pc = "done") =>
    /\ outcome = Returned(Len(responses))
    /\ Len(payCalls) = BoundN
    /\ Len(requests) = BoundN + 1
    /\ Len(responses) = BoundN + 1

\* C10: when the latest response has a status other than 402, the call
\* has returned it as the transport produced it: no body read, no pay
\* call and no request was made for it or after it.
C10_Non402IsReturnedAtOnce ==
  LET k == Len(responses)
  IN (k >= 1 /\ responses[k].status /= 402) =>
       /\ pc = "done"
       /\ outcome = Returned(k)
       /\ \E i \in 1..Len(Responses) : responses[k] = Responses[i]
       /\ ~responses[k].bodyUsed
       /\ textCalls = k - 1
       /\ Len(payCalls) = k - 1
       /\ Len(requests) = k

\* the response to a retry has status 500 and is returned
C10_Witness ==
  /\ Len(responses) = 2
  /\ responses[2].status = 500
  /\ outcome = Returned(2)

\* the name the proof of the k-th payment is to be sent under: the hint of the
\* challenge paid, else the proofHeader option, else x-l402-proof
C11_ProofHeaderName(k) ==
  IF payCalls[k].proofHeader /= Undefined THEN payCalls[k].proofHeader
  ELSE IF opts.proofHeader /= Undefined THEN opts.proofHeader
  ELSE S_xL402Proof

\* C11: every retry carries the proof of the payment before it under the
\* hint of the challenge paid when it has one, else under options.proofHeader
\* when configured, else under x-l402-proof (header names compare without
\* regard to letter case).
C11_ProofHeaderPrecedence ==
  \A k \in 1..Len(payResults) :
    (payResults[k].ok /\ Len(requests) >= k + 1) =>
      Prop(requests[k + 1].headers, ToLowerCase(C11_ProofHeaderName(k))) = payResults[k].proof

\* with options.proofHeader configured, a retry went out for a body challenge
\* with a hint, and one for a header challenge
C11_Witness ==
  /\ opts.given
  /\ opts.proofHeader = S_xCustom
  /\ Len(requests) = 3
  /\ payCalls[1].proofHeader = S_xPaid
  /\ payCalls[2] = parseWwwAuthenticateL402(H_L402)
  /\ Prop(requests[2].headers, S_xPaid) = payResults[1].proof
  /\ Prop(requests[3].headers, S_authorization) = payResults[2].proof
  /\ Prop(requests[3].headers, S_xCustom) = Undefined

\* the parameter names a header carries, in lower case
ParamNames(cs) ==
  UNION {{ToLowerCase(cs[i].params[k].name) : k \in 1..Len(cs[i].params)} : i \in 1..Len(cs)}

\* v has one of the keys, at any depth
RECURSIVE HasKeyDeep(_, _)
HasKeyDeep(v, keys) ==
  /\ v.t = "object"
  /\ \E k \in DOMAIN v.o : k \in keys \/ HasKeyDeep(v.o[k], keys)

\* C12: a challenge parsed from a WWW-Authenticate header that carries none
\* of the parameters proof_header, proofheader, proof-header, header has
\* proofHeader "authorization"; a challenge parsed from a JSON body that
\* carries no proof-header key has proofHeader undefined.
C12_HintDefaults ==
  stage = "parsed" =>
    /\ (/\ headerChallenge /= NoChallenge
        /\ ParamNames(sent.challenges) \cap
             {S_proof_header, S_proofheader, S_proofDashHeader, S_header} = {})
         => headerChallenge.proofHeader = S_authorization
    /\ (/\ bodyChallenge /= NoChallenge
        /\ ~HasKeyDeep(sent.body.value,
                       {S_proofHeader, S_proof_header, S_proofheader, S_proofDashHeader,
                        S_header}))
         => bodyChallenge.proofHeader = Undefined

\* a header challenge without hint parameter and a body challenge without
\* proof-header key have been parsed
C12_Witness ==
  /\ stage = "parsed"
  /\ sent.challenges = <<Challenge(S_L402, FALSE, <<Param(S_invoice, S_lnbc1, TRUE)>>)>>
  /\ sent.body = JsonBody(AtPath(<<S_l402>>, Obj1(S_invoice, JStr(S_lnbc2))))
  /\ headerChallenge /= NoChallenge
  /\ headerChallenge.proofHeader = S_authorization
  /\ bodyChallenge /= NoChallenge
  /\ bodyChallenge.invoice = S_lnbc2
  /\ bodyChallenge.proofHeader = Undefined

\* the value of the parameter called name in a challenge that has it once
ParamValue(c, name) ==
  LET k == CHOOSE k \in 1..Len(c.params) : c.params[k].name = name IN c.params[k].value

HasParam(c, name) == \E k \in 1..Len(c.params) : c.params[k].name = name

\* C13: when the response carries a valid header challenge and a JSON body
\* that is a valid challenge too, parseChallenge returns the header one:
\* invoice, proof header and meta are the header's, nothing is the body's.
C13_HeaderWins ==
  (stage = "parsed" /\ sent \in HeaderAndBody) =>
    LET c == sent.challenges[1]
    IN /\ headerChallenge /= NoChallenge
       /\ bodyChallenge /= NoChallenge
       /\ parsed = headerChallenge
       /\ parsed.invoice = ParamValue(c, S_invoice)
       /\ parsed.invoice /= bodyChallenge.invoice
       /\ parsed.proofHeader \in {S_authorization, S_xPaid}
       /\ parsed.proofHeader = S_xPaid => c.params[Len(c.params)].value = S_xPaid
       /\ parsed.meta =
            (IF HasParam(c, S_macaroon)
             THEN Obj1(S_macaroon, JStr(ParamValue(c, S_macaroon)))
             ELSE JObj(EmptyObject))

\* a header challenge without hint or macaroon came with a body challenge
\* that has both a hint and meta
C13_Witness ==
  /\ stage = "parsed"
  /\ sent = Sent(<<Challenge(S_L402, FALSE, <<Param(S_invoice, S_lnbc1, TRUE)>>)>>,
                 JsonBody(MetaBody))
  /\ bodyChallenge.proofHeader = S_xCustom
  /\ bodyChallenge.meta = Obj1(S_kind, JStr(S_mock))
  /\ parsed.proofHeader = S_authorization

\* C14: when the WWW-Authenticate header is there but none of its segments
\* yields an invoice (another scheme, no invoice parameter, an empty or
\* blank invoice value), parseChallenge returns exactly what
\* parseJsonChallenge returns for the body: a body challenge or none.
C14_FallsThroughToBody ==
  stage = "parsed" =>
    /\ sent.challenges \in FailingHeaders => headerChallenge = NoChallenge
    /\ (received.wwwAuthenticate /= Null /\ headerChallenge = NoChallenge) =>
         /\ parsed = bodyChallenge
         /\ sent.body \in FailingBodies => parsed = NoChallenge
         /\ sent.body = JsonBody(MetaBody) =>
              parsed = [invoice |-> S_lnbc2, proofHeader |-> S_xCustom,
                        meta |-> Obj1(S_kind, JStr(S_mock))]

\* `LSAT macaroon="m1", payreq=" "' came with a body challenge, which was returned
C14_Witness ==
  /\ stage = "parsed"
  /\ sent.challenges =
       <<Challenge(S_LSAT, FALSE, <<Param(S_macaroon, S_m1, TRUE), Param(S_payreq, S_blank, TRUE)>>)>>
  /\ sent.body = JsonBody(MetaBody)
  /\ parsed /= NoChallenge
  /\ parsed.invoice = S_lnbc2

\* the header is one challenge `<scheme> <alias>="..."' of a recognised
\* scheme with one invoice parameter, written as a quoted-string
C15_Case ==
  /\ stage = "parsed"
  /\ Len(sent.challenges) = 1
  /\ sent.challenges[1].scheme \in SchemeSpellings
  /\ ~sent.challenges[1].comma
  /\ Len(sent.challenges[1].params) = 1
  /\ sent.challenges[1].params[1].quoted
  /\ sent.challenges[1].params[1].name \in
       {S_invoice, S_payreq, S_payment_request, S_paymentrequest, S_pr, S_bolt11, S_boltDash11}

\* C15: for every invoice s, every spelling of L402 or LSAT and every invoice
\* alias, parsing `<scheme> <alias>="<e>"', e being s with each " and \
\* escaped by a backslash, yields a challenge whose invoice is s.
C15_QuotedRoundTrip ==
  C15_Case =>
    /\ headerChallenge /= NoChallenge
    /\ headerChallenge.invoice = sent.challenges[1].params[1].value

\* the header is `L402 invoice=<s>', s written as a token and free of
\* double quotes, commas, semicolons and whitespace
C16_Case ==
  /\ stage = "parsed"
  /\ Len(sent.challenges) = 1
  /\ sent.challenges[1].scheme = S_L402
  /\ ~sent.challenges[1].comma
  /\ Len(sent.challenges[1].params) = 1
  /\ ~sent.challenges[1].params[1].quoted
  /\ sent.challenges[1].params[1].name = S_invoice
  /\ \A i \in 1..Len(sent.challenges[1].params[1].value) :
       /\ sent.challenges[1].params[1].value[i] \notin {"\"", ",", ";"}
       /\ ~IsWs(sent.challenges[1].params[1].value[i])

\* C16 as stated: for every such s, the empty one included, parsing
\* `L402 invoice=<s>' yields a challenge whose invoice is s.
C16_TokenRoundTripAnyString ==
  C16_Case =>
    /\ headerChallenge /= NoChallenge
    /\ headerChallenge.invoice = sent.challenges[1].params[1].value

\* C16: for every non-empty s without double quote, comma, semicolon and
\* whitespace, parsing `L402 invoice=<s>' yields a challenge whose invoice
\* is s; for the empty s it yields no challenge.
C16_TokenRoundTrip ==
  C16_Case =>
    IF sent.challenges[1].params[1].value = <<>>
    THEN headerChallenge = NoChallenge
    ELSE /\ headerChallenge /= NoChallenge
         /\ headerChallenge.invoice = sent.challenges[1].params[1].value

\* `L402 invoice=a=' has been parsed to the invoice a=
C16_Witness ==
  /\ C16_Case
  /\ sent.challenges[1].params[1].value = <<"a", "=">>
  /\ headerChallenge /= NoChallenge
  /\ headerChallenge.invoice = <<"a", "=">>

\* the value at the end of a path of keys
RECURSIVE JAt(_, _)
JAt(j, path) == IF path = <<>> THEN j ELSE JAt(JProp(j, path[1]), Tail(path))

C17_IsInvoice(v) == v.t = "string" /\ Trim(v.s) /= <<>>

\* the pairs <<candidate object, alias>>, as positions in the two documented
\* orders, that hold a string which is not blank
C17_Pairs(j) ==
  LET paths == <<<<>>, <<S_l402>>, <<S_challenge>>, <<S_data>>, <<S_details>>, <<S_result>>,
                 <<S_payment>>, <<S_error>>, <<S_error, S_l402>>, <<S_error, S_data>>,
                 <<S_data, S_l402>>, <<S_data, S_challenge>>>>
      aliases == <<S_invoice, S_payreq, S_payment_request, S_paymentRequest,
                   S_paymentrequest, S_pr, S_bolt11, S_bolt_11, S_boltDash11>>
  IN {ca \in (1..Len(paths)) \X (1..Len(aliases)) :
        C17_IsInvoice(JProp(JAt(j, paths[ca[1]]), aliases[ca[2]]))}

\* the first of the pairs: candidate objects in order, aliases in order within one
C17_First(pairs) ==
  CHOOSE ca \in pairs :
    \A o \in pairs : ca[1] < o[1] \/ (ca[1] = o[1] /\ ca[2] <= o[2])

C17_ValueAt(j, ca) ==
  LET paths == <<<<>>, <<S_l402>>, <<S_challenge>>, <<S_data>>, <<S_details>>, <<S_result>>,
                 <<S_payment>>, <<S_error>>, <<S_error, S_l402>>, <<S_error, S_data>>,
                 <<S_data, S_l402>>, <<S_data, S_challenge>>>>
      aliases == <<S_invoice, S_payreq, S_payment_request, S_paymentRequest,
                   S_paymentrequest, S_pr, S_bolt11, S_bolt_11, S_boltDash11>>
  IN JProp(JAt(j, paths[ca[1]]), aliases[ca[2]]).s

\* C17: for every JSON object body the invoice of parseJsonChallenge is the
\* value at the first pair of candidate object and alias (in the documented
\* orders) that holds a string which is not blank, even when an earlier
\* alias of the same object is present but empty or no string; there is no
\* challenge only when there is no such pair.
C17_FirstNonBlankAlias ==
  (stage = "parsed" /\ sent.body.kind = "json" /\ sent.body.value.t = "object") =>
    LET pairs == C17_Pairs(sent.body.value)
    IN IF pairs = {} THEN bodyChallenge = NoChallenge
       ELSE /\ bodyChallenge /= NoChallenge
            /\ bodyChallenge.invoice = C17_ValueAt(sent.body.value, C17_First(pairs))

\* the fixed order of the invoice aliases of a header challenge
C18_Order ==
  <<S_invoice, S_payreq, S_payment_request, S_paymentrequest, S_pr, S_bolt11, S_boltDash11>>

\* the header is one L402 or LSAT challenge whose parameters are several
\* invoice aliases, each once
C18_Case ==
  /\ stage = "parsed"
  /\ Len(sent.challenges) = 1
  /\ sent.challenges[1].scheme \in {S_L402, S_LSAT}
  /\ Len(sent.challenges[1].params) >= 2
  /\ \A i \in 1..Len(sent.challenges[1].params) :
       /\ sent.challenges[1].params[i].name \in Range(C18_Order)
       /\ sent.challenges[1].params[i].quoted
       /\ \A k \in 1..Len(sent.challenges[1].params) :
            i /= k => sent.challenges[1].params[i].name /= sent.challenges[1].params[k].name

\* positions in C18_Order of the aliases the challenge carries with a value
\* that is not empty
C18_NonEmpty ==
  {n \in 1..Len(C18_Order) :
     /\ HasParam(sent.challenges[1], C18_Order[n])
     /\ ParamValue(sent.challenges[1], C18_Order[n]) /= <<>>}

C18_FirstNonEmpty == CHOOSE n \in C18_NonEmpty : \A m \in C18_NonEmpty : n <= m

\* C18: in an L402/LSAT segment with several invoice aliases, the invoice of
\* the challenge that results is the value of the first alias, in the order
\* invoice, payreq, payment_request, paymentrequest, pr, bolt11, bolt-11,
\* whose value is not empty, wherever the parameters stand in the header;
\* a later alias never wins over it: when that value is blank, or all
\* values are empty, there is no challenge.
C18_FirstAliasWins ==
  C18_Case =>
    IF C18_NonEmpty = {} THEN headerChallenge = NoChallenge
    ELSE IF Trim(ParamValue(sent.challenges[1], C18_Order[C18_FirstNonEmpty])) = <<>>
         THEN headerChallenge = NoChallenge
    ELSE /\ headerChallenge /= NoChallenge
         /\ headerChallenge.invoice =
              ParamValue(sent.challenges[1], C18_Order[C18_FirstNonEmpty])

\* `L402 pr="5", invoice="1"' has been parsed: invoice wins though pr stands first
C18_Witness ==
  /\ C18_Case
  /\ sent.challenges[1].params =
       <<Param(S_pr, <<"5">>, TRUE), Param(S_invoice, <<"1">>, TRUE)>>
  /\ headerChallenge /= NoChallenge
  /\ headerChallenge.invoice = <<"1">>

\* the header is a challenge of another scheme, a comma, and an L402 or LSAT
\* challenge `SCHEME params' with an invoice and a macaroon among its
\* comma-separated parameters
C19_Case ==
  /\ stage = "parsed"
  /\ Len(sent.challenges) = 2
  /\ ToLowerCase(sent.challenges[1].scheme) \notin {S_l402, S_lsat}
  /\ ToLowerCase(sent.challenges[2].scheme) \in {S_l402, S_lsat}
  /\ ~sent.challenges[2].comma
  /\ HasParam(sent.challenges[2], S_invoice)
  /\ HasParam(sent.challenges[2], S_macaroon)

\* C19: for a header in which a challenge of another scheme is followed by a
\* comma and an L402/LSAT challenge with several comma-separated parameters,
\* the parser returns the L402/LSAT challenge with its invoice and its
\* macaroon: the other scheme's segment is skipped, and the header is not
\* split at the commas between the parameters.
C19_CombinedHeader ==
  C19_Case =>
    headerChallenge =
      [invoice |-> ParamValue(sent.challenges[2], S_invoice),
       proofHeader |-> S_authorization,
       meta |-> Obj1(S_macaroon, JStr(ParamValue(sent.challenges[2], S_macaroon)))]

\* `Bearer realm="example", L402 macaroon="m1", invoice="lnbc1"' has been parsed
C19_Witness ==
  /\ C19_Case
  /\ sent.challenges =
       <<BearerChallenge,
         Challenge(S_L402, FALSE,
                   <<Param(S_macaroon, S_m1, TRUE), Param(S_invoice, S_lnbc1, TRUE)>>)>>
  /\ headerChallenge /= NoChallenge
  /\ headerChallenge.invoice = S_lnbc1

\* the same header with the last challenge written as `SCHEME params'
C20_SpaceForm ==
  [i \in 1..Len(sent.challenges) |->
     IF i = Len(sent.challenges) THEN [sent.challenges[i] EXCEPT !.comma = FALSE]
     ELSE sent.challenges[i]]

\* C20: an L402/LSAT challenge written `SCHEME, params' parses to the same
\* challenge as written `SCHEME params', when it is the only challenge of
\* the header and when it follows another challenge in a comma-joined header.
C20_CommaFormSame ==
  (/\ stage = "parsed"
   /\ sent.challenges \in CombinedHeaders
   /\ sent.challenges[Len(sent.challenges)].comma) =>
     headerChallenge = parseWwwAuthenticateL402(RenderHeader(C20_SpaceForm))

\* the header is one L402 or LSAT challenge `SCHEME params'
C21_Case ==
  /\ stage = "parsed"
  /\ Len(sent.challenges) = 1
  /\ sent.challenges[1].scheme \in {S_L402, S_LSAT}
  /\ ~sent.challenges[1].comma

\* the same challenge with its parameter names in lower case and its
\* parameters separated by a comma and a space
C21_Plain ==
  Challenge(sent.challenges[1].scheme, FALSE,
            [i \in 1..Len(sent.challenges[1].params) |->
               [sent.challenges[1].params[i] EXCEPT !.name = ToLowerCase(@)]])

\* C21: the challenge parsed from an L402/LSAT segment (invoice, macaroon,
\* hint) is the same whether its parameters are separated by commas,
\* semicolons, spaces or a mix of them, and whatever the letter case of the
\* parameter names.
C21_DelimitersAndKeyCase ==
  C21_Case =>
    /\ headerChallenge = parseWwwAuthenticateL402(RenderHeader(<<C21_Plain>>))
    /\ (/\ sent.challenges \in DelimitedHeaders
        /\ HasParam(C21_Plain, S_payreq) \/ HasParam(C21_Plain, S_invoice)) =>
         /\ headerChallenge /= NoChallenge
         /\ headerChallenge.invoice = S_lnbc1
         /\ HasParam(C21_Plain, S_macaroon) =>
              headerChallenge.meta = Obj1(S_macaroon, JStr(S_m1))
         /\ HasParam(C21_Plain, S_proof_header) => headerChallenge.proofHeader = S_xPaid

\* `LSAT MACAROON=m1;PAYREQ=lnbc1 PROOF_HEADER="x-paid"' has been parsed
C21_Witness ==
  /\ C21_Case
  /\ sent.challenges[1] =
       ChallengeSep(S_LSAT, FALSE,
                    <<Param(ToUpperCase(S_macaroon), S_m1, FALSE),
                      Param(ToUpperCase(S_payreq), S_lnbc1, FALSE),
                      Param(ToUpperCase(S_proof_header), S_xPaid, TRUE)>>,
                    <<<<";">>, <<" ">>>>)
  /\ headerChallenge =
       [invoice |-> S_lnbc1, proofHeader |-> S_xPaid, meta |-> Obj1(S_macaroon, JStr(S_m1))]


\* the transport call in flight fails in this step: the call leaves `fetch'
\* (or sends again) and no response has come in
C22_TransportFails == pc = "fetch" /\ responses' = responses /\ vars' /= vars

\* C22: when a transport call fails, the first one or a retry, the call
\* rejects with that very failure, and from then on no transport call and no
\* pay call is made
C22_TransportFailurePropagates ==
  [][/\ C22_TransportFails =>
          /\ pc' = "done"
          /\ outcome' \in {Threw(e) : e \in TransportErrors}
          /\ UNCHANGED <<requests, payCalls, payResults>>
     /\ (outcome.kind = "threw" /\ outcome.error \in TransportErrors) =>
          UNCHANGED <<outcome, pc, requests, payCalls, payResults>>]_vars

\* a retry sent after a successful payment has failed
C22_Witness ==
  /\ pc = "done"
  /\ outcome \in {Threw(e) : e \in TransportErrors}
  /\ Len(requests) = 2
  /\ Len(responses) = 1
  /\ Len(payResults) = 1
  /\ payResults[1].ok


\* the loop went on from the k-th body read with a text that is no JSON: the
\* read failed and res.text().catch(() => '') yielded the empty text, or the
\* body was such a text, which the rest of the loop cannot tell apart
C23_ReadFailed(k) ==
  /\ k \in 1..Len(bodyTexts)
  /\ bodyTexts[k] = TextBody

\* C23: a failed body read of a 402 does not make the call reject, and the
\* loop goes on as with an empty body: with a challenge in the header pay is
\* called with it and, once pay has resolved, the retry is sent; without one
\* the 402 is returned and pay is not called
C23_BodyReadFailureTolerated ==
  \A k \in 1..Len(bodyTexts) :
    C23_ReadFailed(k) =>
      LET fromHeader == parseWwwAuthenticateL402(responses[k].wwwAuthenticate)
      IN IF fromHeader /= NoChallenge
         THEN /\ Len(payCalls) >= k
              /\ payCalls[k] = fromHeader
              /\ (Len(payResults) >= k /\ payResults[k].ok) => Len(requests) >= k + 1
         ELSE /\ pc = "done"
              /\ outcome = Returned(k)
              /\ Len(payCalls) = k - 1


\* C24: every transport call of the call is given the input, the method and
\* the body of the first one, which are the caller's; only headers differ
C24_OnlyHeadersChange ==
  \A k \in 1..Len(requests) :
    /\ requests[k].input = requests[1].input
    /\ requests[k].method = requests[1].method
    /\ requests[k].body = requests[1].body
    /\ requests[k].input = input
    /\ requests[k].method = init.method
    /\ requests[k].body = init.body

\* a POST with a body, sent three times with three different sets of headers
C24_Witness ==
  /\ Len(requests) = 3
  /\ requests[1].method = "POST"
  /\ requests[3].body = "payload"
  /\ requests[1].headers /= requests[2].headers
  /\ requests[2].headers /= requests[3].headers


\* the headers the caller handed to call c
C25_Given(c) == original.headers[original.inits[call[c].init].headers]

\* C25: with two calls under way in any interleaving, also on one init
\* object or one headers object, the caller's init and headers objects stay
\* as they were handed over, and each request of a call carries every header
\* of the caller with the caller's value or with a proof of that call, and
\* beyond these only proofs of that call
C25_NoSharedHeaderState ==
  /\ \A r \in 1..Len(original.inits) : initObjects[r] = original.inits[r]
  /\ \A r \in 1..Len(original.headers) : headersObjects[r] = original.headers[r]
  /\ \A c \in Calls : \A k \in 1..Len(call[c].requests) :
       LET sentHeaders == call[c].requests[k]
           own == {call[c].proofs[j] : j \in 1..Len(call[c].proofs)}
       IN /\ DOMAIN C25_Given(c) \subseteq DOMAIN sentHeaders
          /\ \A name \in DOMAIN sentHeaders :
               \/ sentHeaders[name] \in own
               \/ name \in DOMAIN C25_Given(c) /\ sentHeaders[name] = C25_Given(c)[name]

\* both calls were given the same init object, and each has sent a retry
\* with a proof of its own
C25_Witness ==
  /\ Len(original.inits) = 1
  /\ \A c \in Calls :
       /\ Len(call[c].requests) = 2
       /\ S_xL402Proof \in DOMAIN call[c].requests[2]
       /\ call[c].requests[2][S_xL402Proof] = ProofOf(c, 1)
       /\ call[c].requests[1] = CallerHeaders


\* nothing failed on the way: every request was answered, every body read
\* and every pay resolved with the proof the server requires
C26_Case ==
  /\ pc = "done"
  /\ ~server.challengeInHeader
  /\ server.includeProofHeaderHint
  /\ Len(responses) = Len(requests)
  /\ \A k \in 1..Len(bodyTexts) : bodyTexts[k] = responses[k].body
  /\ \A k \in 1..Len(payResults) :
       payResults[k].ok /\ payResults[k].proof = server.requiredProof

\* C26: against the mock server in JSON mode with the hint included,
\* whatever the variant and the invoice key, a call with default options
\* whose pay returns the required proof sees a challenge with a non-empty
\* invoice and a non-empty proofHeader, sends two requests, pays once and
\* ends with the 200
C26_MockJsonFlowSucceeds ==
  C26_Case =>
    /\ Len(requests) = 2
    /\ Len(payCalls) = 1
    /\ Truthy(payCalls[1].invoice)
    /\ Truthy(payCalls[1].proofHeader)
    /\ outcome = Returned(2)
    /\ AsProduced(responses[2]) = R_MockPaid

\* the flow went through for variant data.challenge with invoice key bolt-11
\* on a server that asks for the proof under x-paid
C26_Witness ==
  /\ C26_Case
  /\ server.challengeJsonVariant = "data.challenge"
  /\ server.invoiceKey = S_boltDash11
  /\ server.proofHeader = S_xPaid
  /\ outcome = Returned(2)
  /\ requests[2].headers[S_xPaid] = S_paid


\* transport calls and pay calls that have not settled yet
C27_SendsInFlight == Len(requests) - Len(responses)
C27_PaysInFlight == Len(payCalls) - Len(payResults)

\* C27: sends and pays alternate, the first being a send; the k-th pay comes
\* directly after the k-th response, a 402 with a parseable challenge, while
\* fewer than maxRetries pays have been made; a pay that resolved is followed
\* by one send; never are two sends or pays in flight; and a call that
\* returned a response has sent once more than it has paid
C27_SendsAndPaysAlternate ==
  /\ Len(payCalls) <= Len(requests)
  /\ Len(requests) <= Len(payCalls) + 1
  /\ \A k \in 1..Len(payCalls) :
       /\ Len(responses) >= k
       /\ responses[k].status = 402
       /\ payCalls[k] /= NoChallenge
       /\ payCalls[k] = parseChallenge(responses[k].wwwAuthenticate, bodyTexts[k])
       /\ maxRetries.t = "number"
       /\ k - 1 < maxRetries.n
  /\ \A k \in 1..Len(payResults) :
       payResults[k].ok => (Len(requests) >= k + 1 /\ Len(requests) <= k + 2)
  /\ C27_SendsInFlight \in {0, 1}
  /\ C27_PaysInFlight \in {0, 1}
  /\ pc /= "done" => C27_SendsInFlight + C27_PaysInFlight <= 1
  /\ outcome.kind = "returned" => Len(requests) = Len(payCalls) + 1


\* a transport call is made in this step
C28_Sends == Len(requests') = Len(requests) + 1

\* C28: the first transport call carries the caller's headers; each later
\* one carries the headers of the one before with one change, the chosen
\* proof header holding the proof of the latest pay in place of any value it
\* had; no other header comes, goes or changes
C28_HeadersEvolveByOneProof ==
  [][C28_Sends =>
       IF requests = <<>> THEN requests'[1].headers = init.headers
       ELSE LET k == Len(requests)
                before == requests[k].headers
                after == requests'[k + 1].headers
                chosen == ToLowerCase(FirstTruthy(<<payCalls[k].proofHeader,
                                                    defaultProofHeader>>))
            IN /\ Len(payResults') = k
               /\ DOMAIN after = DOMAIN before \cup {chosen}
               /\ after[chosen] = payResults'[k].proof
               /\ \A name \in DOMAIN before \ {chosen} : after[name] = before[name]]_vars

\* the first retry replaced the caller's authorization by a proof, the
\* second added another proof under x-paid and kept the rest
C28_Witness ==
  /\ Len(requests) = 3
  /\ init.headers = SetKey(SetKey(EmptyObject, S_accept, S_json), S_authorization, S_caller)
  /\ requests[2].headers =
       SetKey(SetKey(EmptyObject, S_accept, S_json), S_authorization, S_paid)
  /\ requests[3].headers =
       SetKey(SetKey(SetKey(EmptyObject, S_accept, S_json), S_authorization, S_paid),
              S_xPaid, S_p2)


C29_IsHint(v) == v.t = "string" /\ Trim(v.s) /= <<>>

\* the pairs <<candidate object, alias>>, as positions in the two documented
\* orders, that hold a string which is not blank
C29_Pairs(j) ==
  LET paths == <<<<>>, <<S_l402>>, <<S_challenge>>, <<S_data>>, <<S_details>>, <<S_result>>,
                 <<S_error>>, <<S_error, S_l402>>, <<S_data, S_l402>>, <<S_data, S_challenge>>>>
      aliases == <<S_proofHeader, S_proof_header, S_proofheader, S_proofDashHeader, S_header>>
  IN {ca \in (1..Len(paths)) \X (1..Len(aliases)) :
        C29_IsHint(JProp(JAt(j, paths[ca[1]]), aliases[ca[2]]))}

C29_ValueAt(j, ca) ==
  LET paths == <<<<>>, <<S_l402>>, <<S_challenge>>, <<S_data>>, <<S_details>>, <<S_result>>,
                 <<S_error>>, <<S_error, S_l402>>, <<S_data, S_l402>>, <<S_data, S_challenge>>>>
      aliases == <<S_proofHeader, S_proof_header, S_proofheader, S_proofDashHeader, S_header>>
  IN JProp(JAt(j, paths[ca[1]]), aliases[ca[2]]).s

\* C29: the proof-header hint of a JSON body challenge is the value at the
\* first pair of candidate object and alias (in the documented orders) that
\* holds a string which is not blank, wherever the invoice was found, and
\* there is no hint when there is no such pair; so a hint only under
\* `payment' or `error.data' is not found
C29_FirstHintPair ==
  (/\ stage = "parsed"
   /\ sent.body.kind = "json"
   /\ sent.body.value.t = "object"
   /\ bodyChallenge /= NoChallenge) =>
    LET pairs == C29_Pairs(sent.body.value)
    IN IF pairs = {} THEN bodyChallenge.proofHeader = Undefined
       ELSE bodyChallenge.proofHeader = C29_ValueAt(sent.body.value, C17_First(pairs))


\* C30: whatever max402Retries is (absent, negative, zero, positive, or
\* something that is no number), the retry bound the loop works with is a
\* finite number that is not negative, and pay is invoked at most that many
\* times, so a call whose awaits all complete comes to an end
C30_RetryBoundIsFinite ==
  (HasPay /\ pc /= "idle") =>
    /\ maxRetries.t = "number"
    /\ maxRetries.n >= 0
    /\ Len(payCalls) <= maxRetries.n

====
